---- MODULE Spec2Model ----
(***************************************************************************)
(* Model of the client-side logging of the Safari extension: the           *)
(* asynchronous log queue (AsyncLogQueue, log-queue.ts) - bounded buffer   *)
(* with priority-aware overflow eviction, single-flight batch flush, retry *)
(* and console fallback - and the objects around it: ConfigManager,        *)
(* Logger and SafariExceptionHandler.  The event loop is single-threaded:  *)
(* every action below is one run-to-completion turn (a call from           *)
(* application code, a timer firing, or the continuation of an awaited     *)
(* promise together with the microtasks it triggers).  The logger of the   *)
(* Chrome extension (UnifiedLogger, shared/logger.ts) is modelled next to  *)
(* it, in a specification of its own.                                      *)
(***************************************************************************)
EXTENDS Integers, Sequences, FiniteSets, TLC

\* ---------------------------------------------------------------- bounds
MaxEntries == 3           \* number of enqueue calls explored
MaxBatchSize == 2         \* the largest batchSize that still triggers flushes
MaxQueueSize == 2         \* the largest maxQueueSize explored
MaxRetryAttempts == 2     \* the largest retryAttempts explored
MaxTimers == 2            \* interval handles the event loop can hand out
MaxFeedback == 3          \* entries the handler's hooks add beyond MaxEntries

\* ------------------------------------------------------------- constants
LogLevel == {"debug", "info", "warn", "error"}
LOG_LEVELS == [debug |-> 0, info |-> 1, warn |-> 2, error |-> 3]
\* Mutation: the scan starts at the highest level.
priorityOrder_errorFirst == <<"error", "warn", "info", "debug">>

\* Mutation: the scan stops before the highest level.
priorityOrder_noError == <<"debug", "info", "warn">>

priorityOrder == <<"debug", "info", "warn", "error">>

\* Outcomes of one fetch() as seen by sendBatch: a 2xx response ("ok"), a
\* 2xx response whose body says {"status": "error"} ("bodyError"), a rejected
\* fetch (network error), a non-2xx response, or the 10 s abort.
FetchFailures == {"network", "http", "timeout"}
FetchOutcomes == {"ok", "bodyError"} \cup FetchFailures

\* sendBatch returns normally: fetch resolved and response.ok is true (the
\* body of the response is never read).
sendBatchResolves(outcome) == outcome \notin FetchFailures

\* The arguments of the fetch() call sendBatch makes for a batch.
fetchCall(endpoint, batch) ==
    [url |-> endpoint \o "/api/logs", method |-> "POST",
     contentType |-> "application/json", body |-> [entries |-> batch]]

\* DEFAULT_CONFIG of types/config.ts.
DEFAULT_CONFIG ==
    [apiEndpoint |-> "http://localhost:8000/api/logs", batchSize |-> 10,
     flushInterval |-> 5000, maxQueueSize |-> 100, logLevel |-> "info",
     retryAttempts |-> 3, retryDelayMs |-> 1000, enabled |-> TRUE]

\* The endpoint the tests of the queue and of the Logger configure.
TestEndpoint == "http://localhost:8000"

\* A batchSize larger than every maxQueueSize (the overflow tests use 10 > 3).
BigBatch == MaxQueueSize + MaxEntries

Config(b, m, r, d, e) ==
    [batchSize |-> b, maxQueueSize |-> m, retryAttempts |-> r, retryDelayMs |-> d,
     apiEndpoint |-> e]

\* The valid configurations explored (batchSize > 0, maxQueueSize > 0,
\* retryAttempts >= 0, retryDelayMs > 0): flush on every enqueue with the smallest queue and
\* with a queue longer than a batch, batches of several entries, and a
\* batchSize no enqueue reaches; the endpoint is the default one or the one
\* of the tests.
LoggingConfig ==
    {Config(1, MaxQueueSize - 1, MaxRetryAttempts, 1000, DEFAULT_CONFIG.apiEndpoint),
     Config(1, MaxQueueSize, 0, 1000, TestEndpoint),
     Config(MaxBatchSize, MaxQueueSize, 0, 2000, DEFAULT_CONFIG.apiEndpoint),
     Config(BigBatch, MaxQueueSize, MaxRetryAttempts - 1, 100, TestEndpoint)}

VARIABLES
    config,             \* AsyncLogQueue.config (fixed at construction)
    queue,              \* AsyncLogQueue.queue
    isFlushInProgress,  \* AsyncLogQueue.isFlushInProgress
    autoFlushTimer,     \* AsyncLogQueue.autoFlushTimer (0 = null)
    timers,             \* interval timers registered with the event loop
    flights,            \* suspended flush() activations; calls counts the
                        \* fetch() calls made for the batch so far
    requests,           \* fetch() calls awaiting their response
    flushAllPc,         \* position of the flushAll() caller
    nextId,             \* identity of the next entry handed to enqueue
    delivered,          \* ids of the entries whose batch got a 2xx response
    fallback,           \* ids of the entries written by fallbackToConsole
    dropped,            \* ids of the entries removed by handleQueueOverflow
    console,            \* lines written to console.* during the last turn
    lastSettled,        \* flush() promise settled during the last turn
    flushAllResult,     \* flushAll() promise settled during the last turn
    drain,              \* history of the flushAll() call in progress (or just
                        \* settled): the ids queued when it was called, the
                        \* transport calls issued since, and whether it ran
                        \* undisturbed (no flush in flight at the call, no
                        \* enqueue and no failed transport call since)
    cmConfig,           \* ConfigManager.config
    isInitialized,      \* Logger.isInitialized (FALSE: no Logger constructed)
    isSetup,            \* SafariExceptionHandler.isSetup (FALSE: no handler)
    result              \* what the last call of application code into the
                        \* ConfigManager, the Logger or the exception handler
                        \* returned or threw

\* The objects around the queue: ConfigManager, Logger, exception handler.
appVars == <<cmConfig, isInitialized, isSetup, result>>

vars == <<config, queue, isFlushInProgress, autoFlushTimer, timers, flights,
          requests, flushAllPc, nextId, delivered, fallback, dropped,
          console, lastSettled, flushAllResult, drain, appVars>>

\* ---------------------------------------------------------------- helpers
Min(a, b) == IF a < b THEN a ELSE b

Ids(s) == {s[i].id : i \in 1..Len(s)}

Line(method, text, level, arg) ==
    [method |-> method, text |-> text, level |-> level, arg |-> arg]

NoSettle == [origin |-> "none", outcome |-> "none", error |-> "none",
             handler |-> "none", calls |-> 0]

NoDrain == [ids |-> {}, calls |-> 0, clean |-> TRUE]

NoResult == [call |-> "none"]

\* The value of cmConfig while no ConfigManager exists: no field at all.
NoConfigManager == <<>>

\* The history of flushAll() across a turn of another caller; the count is
\* kept only for an undisturbed drain.
Observe(disturbed) ==
    drain' = IF flushAllPc = "idle"
             THEN NoDrain
             ELSE LET c == drain.clean /\ ~disturbed
                  IN  [ids |-> drain.ids,
                       calls |-> IF c THEN drain.calls
                                           + Cardinality(requests' \ requests)
                                      ELSE 0,
                       clean |-> c]

\* ------------------------------------------------------ overflow eviction
\* Mutation: findLastIndex instead of findIndex.
findIndex_last(q, level) ==
    IF \E i \in 1..Len(q) : q[i].level = level
    THEN CHOOSE i \in 1..Len(q) :
            /\ q[i].level = level
            /\ \A j \in (i + 1)..Len(q) : q[j].level # level
    ELSE 0

\* Array.prototype.findIndex on entry.level; 0 stands for -1 (not found).
findIndex(q, level) ==
    IF \E i \in 1..Len(q) : q[i].level = level
    THEN CHOOSE i \in 1..Len(q) :
            /\ q[i].level = level
            /\ \A j \in 1..(i - 1) : q[j].level # level
    ELSE 0

\* Array.prototype.splice(index, 1) with a 1-based index.
spliceOne(q, index) == SubSeq(q, 1, index - 1) \o SubSeq(q, index + 1, Len(q))

\* The trailing "drop the oldest entry" branch of handleQueueOverflow.
dropOldest(q) ==
    IF Len(q) > 0
    THEN [queue |-> Tail(q),
          console |-> <<Line("warn", "Log queue overflow: dropped oldest message",
                             Head(q).level, 0)>>,
          dropped |-> {Head(q).id},
          branch |-> "oldest"]
    ELSE [queue |-> q, console |-> <<>>, dropped |-> {}, branch |-> "none"]

\* The for loop of handleQueueOverflow, from position k of priorityOrder.
RECURSIVE overflowScan(_, _)
overflowScan(q, k) ==
    IF k > Len(priorityOrder)
    THEN dropOldest(q)
    ELSE LET indexToRemove == findIndex(q, priorityOrder[k])
         IN  IF indexToRemove # 0
             THEN [queue |-> spliceOne(q, indexToRemove),
                   console |-> <<Line("warn", "Log queue overflow: dropped message",
                                      priorityOrder[k], 0)>>,
                   dropped |-> {q[indexToRemove].id},
                   branch |-> "priority"]
             ELSE overflowScan(q, k + 1)

handleQueueOverflow(q) == overflowScan(q, 1)

\* Mutation: `>` instead of `>=`.
isAtCapacity_offByOne(q) == Len(q) > config.maxQueueSize

\* The capacity test at the top of enqueue.
isAtCapacity(q) == Len(q) >= config.maxQueueSize

\* Mutation: the threshold is clamped to the capacity of the queue.
reachedBatchSize_clamped(q) ==
    Len(q) >= Min(config.batchSize, config.maxQueueSize)

\* Mutation: `>` instead of `>=`.
reachedBatchSize_offByOne(q) == Len(q) > config.batchSize

\* The batch-size test at the end of enqueue.
reachedBatchSize(q) == Len(q) >= config.batchSize

\* ------------------------------------------------------------------ flush
\* Mutation: the guard does not test isFlushInProgress.
flushIsNoop_ignoresFlag(q, inProgress) == Len(q) = 0

\* The guard at the top of flush(): TRUE when the call returns at once.
flushIsNoop(q, inProgress) == inProgress \/ Len(q) = 0

\* Mutation: the queue is emptied although only batchSize entries are sent.
spliceBatch_clearsQueue(q) ==
    LET n == Min(config.batchSize, Len(q))
    IN  [batch |-> SubSeq(q, 1, n), rest |-> <<>>]

\* Mutation: the batch is taken from the tail of the queue.
spliceBatch_fromTail(q) ==
    LET n == Min(config.batchSize, Len(q))
    IN  [batch |-> SubSeq(q, Len(q) - n + 1, Len(q)),
         rest |-> SubSeq(q, 1, Len(q) - n)]

\* Mutation: splice(0) - every queued entry goes into the batch.
spliceBatch_takesAll(q) == [batch |-> q, rest |-> <<>>]

\* queue.splice(0, batchSize): the removed head and what stays queued.
spliceBatch(q) ==
    LET n == Min(config.batchSize, Len(q))
    IN  [batch |-> SubSeq(q, 1, n), rest |-> SubSeq(q, n + 1, Len(q))]

\* A flush() activation: its batch, its caller, the attemptNumber of the
\* sendBatchWithRetry call it is in, whether it awaits the fetch or the
\* backoff sleep, the delay passed to that sleep (0 while it awaits the
\* fetch), and the fetch() calls made so far.
Flight(batch, origin) ==
    [batch |-> batch, origin |-> origin, attemptNumber |-> 0,
     pc |-> "sending", delay |-> 0, calls |-> 1]

\* flush() up to its first suspension point (the fetch inside sendBatch),
\* called with queue q by `origin`.  Yields the new values of the fields it
\* touches.
flush(q, origin) ==
    IF flushIsNoop(q, isFlushInProgress)
    THEN [started |-> FALSE, queue |-> q,
          isFlushInProgress |-> isFlushInProgress,
          flights |-> flights, requests |-> requests]
    ELSE LET s == spliceBatch(q)
         IN  [started |-> TRUE, queue |-> s.rest,
              isFlushInProgress |-> TRUE,
              flights |-> flights \cup {Flight(s.batch, origin)},
              requests |-> requests \cup {s.batch}]

ApplyFlush(r) ==
    /\ queue' = r.queue
    /\ isFlushInProgress' = r.isFlushInProgress
    /\ flights' = r.flights
    /\ requests' = r.requests

\* A turn that settles no promise.
Quiet ==
    /\ lastSettled' = NoSettle
    /\ flushAllResult' = "none"

\* ---------------------------------------------------------------- actions
\* The field initialisers of AsyncLogQueue.
QueueFresh ==
    /\ queue = <<>>
    /\ isFlushInProgress = FALSE
    /\ autoFlushTimer = 0
    /\ timers = {}
    /\ flights = {}
    /\ requests = {}
    /\ flushAllPc = "idle"
    /\ nextId = 1
    /\ delivered = {}
    /\ fallback = {}
    /\ dropped = {}
    /\ console = <<>>
    /\ lastSettled = NoSettle
    /\ flushAllResult = "none"
    /\ drain = NoDrain

\* An AsyncLogQueue constructed on its own: no ConfigManager, no Logger, no
\* exception handler.
Init ==
    /\ config \in LoggingConfig
    /\ QueueFresh
    /\ cmConfig = NoConfigManager
    /\ isInitialized = FALSE
    /\ isSetup = FALSE
    /\ result = NoResult

\* enqueue(logEntry): the fields it touches.
enqueue(logEntry) ==
    /\ nextId <= MaxEntries
    /\ LET o == IF isAtCapacity(queue)
                THEN handleQueueOverflow(queue)
                ELSE [queue |-> queue, console |-> <<>>, dropped |-> {},
                      branch |-> "none"]
           pushed == Append(o.queue, logEntry)
       IN  /\ console' = o.console
           /\ dropped' = dropped \cup o.dropped
           /\ IF reachedBatchSize(pushed)
              THEN ApplyFlush(flush(pushed, "enqueue"))
              ELSE /\ queue' = pushed
                   /\ UNCHANGED <<isFlushInProgress, flights, requests>>
    /\ nextId' = nextId + 1

\* A turn whose only call into the queue is enqueue(logEntry).
enqueueTurn(logEntry) ==
    /\ enqueue(logEntry)
    /\ Quiet
    /\ UNCHANGED <<config, autoFlushTimer, timers, flushAllPc, delivered,
                   fallback>>
    /\ Observe(TRUE)

\* enqueue(logEntry) with an entry of the given level, called directly.
Enqueue(level) ==
    /\ enqueueTurn([id |-> nextId, level |-> level])
    /\ UNCHANGED appVars

\* A direct call of flush() by application code (Logger.flushLogs).
Flush ==
    /\ ApplyFlush(flush(queue, "manual"))
    /\ console' = <<>>
    /\ Quiet
    /\ UNCHANGED <<config, autoFlushTimer, timers, flushAllPc, nextId,
                   delivered, fallback, dropped>>
    /\ UNCHANGED appVars
    /\ Observe(FALSE)

\* ------------------------------------------------------- auto-flush timer
\* Mutation: the previous interval is not cleared.
clearPrevious_keepsRunning(active, handle) == active

\* clearInterval(autoFlushTimer) at the top of startAutoFlush.
clearPrevious(active, handle) == IF handle # 0 THEN active \ {handle} ELSE active

\* startAutoFlush: the fields it touches (the lowest free handle stands for
\* the one setInterval returns).
startAutoFlush ==
    LET cleared == clearPrevious(timers, autoFlushTimer)
    IN  /\ \E t \in 1..MaxTimers : t \notin cleared
        /\ LET t == CHOOSE x \in 1..MaxTimers :
                       /\ x \notin cleared
                       /\ \A y \in 1..(x - 1) : y \in cleared
           IN  /\ timers' = cleared \cup {t}
               /\ autoFlushTimer' = t

StartAutoFlush ==
    /\ startAutoFlush
    /\ console' = <<>>
    /\ Quiet
    /\ UNCHANGED <<config, queue, isFlushInProgress, flights, requests,
                   flushAllPc, nextId, delivered, fallback, dropped>>
    /\ UNCHANGED appVars
    /\ Observe(FALSE)

\* Mutation: stopAutoFlush forgets the handle without clearing the interval.
clearStopped_keepsRunning(active, handle) == active

\* clearInterval(autoFlushTimer) in stopAutoFlush.
clearStopped(active, handle) == active \ {handle}

StopAutoFlush ==
    /\ IF autoFlushTimer # 0
       THEN /\ timers' = clearStopped(timers, autoFlushTimer)
            /\ autoFlushTimer' = 0
       ELSE UNCHANGED <<timers, autoFlushTimer>>
    /\ console' = <<>>
    /\ Quiet
    /\ UNCHANGED <<config, queue, isFlushInProgress, flights, requests,
                   flushAllPc, nextId, delivered, fallback, dropped>>
    /\ UNCHANGED appVars
    /\ Observe(FALSE)

\* The setInterval callback: flush().catch(...).
Tick ==
    /\ timers # {}
    /\ ApplyFlush(flush(queue, "timer"))
    /\ console' = <<>>
    /\ Quiet
    /\ UNCHANGED <<config, autoFlushTimer, timers, flushAllPc, nextId,
                   delivered, fallback, dropped>>
    /\ UNCHANGED appVars
    /\ Observe(FALSE)

\* --------------------------------------------------------------- flushAll
\* Mutation: the loop stops as soon as less than a full batch is queued.
queueDrained_belowBatch(q) == Len(q) < config.batchSize

\* The exit test of `while (this.queue.length > 0)`.
queueDrained(q) == ~(Len(q) > 0)

\* One evaluation of the while loop of flushAll(), up to its next
\* suspension: the awaited flush() or, when that returned at once, sleep(1).
FlushAllLoop ==
    IF queueDrained(queue)
    THEN /\ flushAllPc' = "idle"
         /\ flushAllResult' = "resolved"
         /\ UNCHANGED <<queue, isFlushInProgress, flights, requests>>
    ELSE LET r == flush(queue, "flushAll")
         IN  /\ ApplyFlush(r)
             /\ flushAllPc' = IF r.started THEN "awaitFlush" ELSE "sleeping"
             /\ flushAllResult' = "none"

FlushAll ==
    /\ flushAllPc = "idle"
    /\ FlushAllLoop
    /\ console' = <<>>
    /\ lastSettled' = NoSettle
    /\ drain' = [ids |-> Ids(queue),
                 calls |-> Cardinality(requests' \ requests),
                 clean |-> flights = {}]
    /\ UNCHANGED <<config, autoFlushTimer, timers, nextId, delivered, fallback,
                   dropped>>
    /\ UNCHANGED appVars

\* sleep(1) of flushAll() elapsed.
FlushAllWake ==
    /\ flushAllPc = "sleeping"
    /\ FlushAllLoop
    /\ console' = <<>>
    /\ lastSettled' = NoSettle
    /\ UNCHANGED <<config, autoFlushTimer, timers, nextId, delivered, fallback,
                   dropped>>
    /\ UNCHANGED appVars
    /\ Observe(FALSE)

\* ------------------------------------------------- sendBatchWithRetry
\* String.prototype.toUpperCase on a level tag.
toUpperCase(level) ==
    CASE level = "debug" -> "DEBUG"
      [] level = "info"  -> "INFO"
      [] level = "warn"  -> "WARN"
      [] level = "error" -> "ERROR"

\* Mutation: every entry is written with console.log.
consoleMethod_alwaysLog(level) == "log"

\* The switch of logToConsole: the console method an entry is written with.
consoleMethod(level) ==
    CASE level = "debug" -> "debug"
      [] level = "info"  -> "info"
      [] level = "warn"  -> "warn"
      [] level = "error" -> "error"

logToConsole(entry) ==
    Line(consoleMethod(entry.level), "entry", toUpperCase(entry.level), entry.id)

fallbackToConsole(batch) ==
    <<Line("warn", "Falling back to console logging due to backend unavailability",
           "", 0)>>
    \o [i \in 1..Len(batch) |-> logToConsole(batch[i])]

\* The ids of the entries a sequence of console lines writes out.
entriesWritten(lines) ==
    {lines[i].arg : i \in {j \in 1..Len(lines) : lines[j].text = "entry"}}

\* Mutation: the exponent counts attempts from 1.
backoffDelay_oneIndexed(attemptNumber) ==
    config.retryDelayMs * 2 ^ (attemptNumber + 1)

\* const delay = this.config.retryDelayMs * Math.pow(2, attemptNumber).
backoffDelay(attemptNumber) == config.retryDelayMs * 2 ^ attemptNumber

\* Mutation: `<=` instead of `<`.
mayRetry_offByOne(attemptNumber) == attemptNumber <= config.retryAttempts

\* The test `attemptNumber < this.config.retryAttempts` of the catch block.
mayRetry(attemptNumber) == attemptNumber < config.retryAttempts

\* Mutation: enqueue calls flush() without a .catch handler.
rejectionHandler_enqueueUncaught(origin) ==
    CASE origin = "enqueue"  -> "unhandled"
      [] origin = "timer"    -> "catch"
      [] origin = "manual"   -> "caller"
      [] origin = "flushAll" -> "caller"

\* Mutation: the interval callback calls flush() without a .catch handler.
rejectionHandler_timerUncaught(origin) ==
    CASE origin = "enqueue"  -> "catch"
      [] origin = "timer"    -> "unhandled"
      [] origin = "manual"   -> "caller"
      [] origin = "flushAll" -> "caller"

\* What each caller of flush() does with a rejection: the .catch handlers of
\* enqueue and of the interval callback write a console error; a direct
\* caller and flushAll() receive the rejection themselves.
rejectionHandler(origin) ==
    CASE origin = "enqueue"  -> "catch"
      [] origin = "timer"    -> "catch"
      [] origin = "manual"   -> "caller"
      [] origin = "flushAll" -> "caller"

catchLines(origin) ==
    CASE origin = "enqueue" -> <<Line("error", "Auto-flush failed:", "", 0)>>
      [] origin = "timer"   -> <<Line("error", "Auto-flush interval failed:", "", 0)>>
      [] OTHER              -> <<>>

\* Mutation: the flag is reset after the await instead of in a finally block.
flagAfterSettle_noFinally(outcome) == outcome = "rejected"

\* The value of isFlushInProgress once the flush() that owned the flag has
\* settled (the finally block of flush).
flagAfterSettle(outcome) == FALSE

\* The flush() promise of flight f settles; flushAll(), when it is the one
\* awaiting it, resumes in the same turn.
Settle(f, outcome, error) ==
    /\ flights' = flights \ {f}
    /\ isFlushInProgress' = flagAfterSettle(outcome)
    /\ lastSettled' = [origin |-> f.origin, outcome |-> outcome, error |-> error,
                       handler |-> IF outcome = "rejected"
                                   THEN rejectionHandler(f.origin) ELSE "none",
                       calls |-> f.calls]
    /\ IF f.origin = "flushAll"
       THEN IF outcome = "resolved"
            THEN /\ flushAllPc' = "sleeping"
                 /\ flushAllResult' = "none"
            ELSE /\ flushAllPc' = "idle"
                 /\ flushAllResult' = "rejected"
       ELSE /\ flushAllResult' = "none"
            /\ UNCHANGED flushAllPc

\* The outstanding fetch of flight f completes with the given outcome.
Response(f, outcome) ==
    /\ f.pc = "sending"
    /\ f.batch \in requests
    /\ requests' = requests \ {f.batch}
    /\ IF sendBatchResolves(outcome)
       THEN /\ Settle(f, "resolved", "none")
            /\ delivered' = delivered \cup Ids(f.batch)
            /\ console' = <<>>
            /\ UNCHANGED fallback
       ELSE IF mayRetry(f.attemptNumber)
       THEN /\ flights' = (flights \ {f}) \cup
                  {[f EXCEPT !.pc = "sleeping",
                             !.delay = backoffDelay(f.attemptNumber)]}
            /\ console' = <<Line("warn", "Log transmission failed, retrying", "",
                                 f.attemptNumber + 1)>>
            /\ Quiet
            /\ UNCHANGED <<isFlushInProgress, flushAllPc, delivered, fallback>>
       ELSE /\ Settle(f, "rejected", outcome)
            /\ console' =
                  <<Line("error", "Log transmission failed after all retry attempts:",
                         "", 0)>>
                  \o fallbackToConsole(f.batch)
                  \o (IF rejectionHandler(f.origin) = "catch"
                      THEN catchLines(f.origin) ELSE <<>>)
            /\ fallback' = fallback \cup entriesWritten(fallbackToConsole(f.batch))
            /\ UNCHANGED delivered
    /\ UNCHANGED <<config, queue, autoFlushTimer, timers, nextId, dropped>>
    /\ UNCHANGED appVars
    /\ Observe(~sendBatchResolves(outcome))

\* Mutation: the retry sends whatever is queued by then along with the batch.
retryBatch_includesQueue(f) == f.batch \o queue

\* The batch argument of the recursive call sendBatchWithRetry(batch, n + 1).
retryBatch(f) == f.batch

\* The backoff sleep of flight f elapsed: sendBatchWithRetry(batch, n + 1).
Retry(f) ==
    /\ f.pc = "sleeping"
    /\ flights' = (flights \ {f}) \cup
          {[f EXCEPT !.batch = retryBatch(f), !.pc = "sending", !.delay = 0,
                     !.attemptNumber = @ + 1, !.calls = @ + 1]}
    /\ requests' = requests \cup {retryBatch(f)}
    /\ console' = <<>>
    /\ Quiet
    /\ UNCHANGED <<config, queue, isFlushInProgress, autoFlushTimer, timers,
                   flushAllPc, nextId, delivered, fallback, dropped>>
    /\ UNCHANGED appVars
    /\ Observe(FALSE)

Next ==
    \/ \E level \in LogLevel : Enqueue(level)
    \/ Flush
    \/ Tick
    \/ StartAutoFlush
    \/ StopAutoFlush
    \/ FlushAll
    \/ FlushAllWake
    \/ \E f \in flights : \E outcome \in FetchOutcomes : Response(f, outcome)
    \/ \E f \in flights : Retry(f)

Spec == Init /\ [][Next]_vars

\* The event loop runs every timer that is due and every fetch settles (the
\* AbortController ends it after 10 s at the latest): the sleep of
\* flushAll() elapses, every outstanding transport call gets its response
\* and every backoff sleep elapses.
\* The configurations of LoggingConfig the liveness checks run over: a queue
\* longer than a batch, batches of several entries, and retries.
LiveConfig ==
    {Config(1, MaxQueueSize - 1, MaxRetryAttempts, 1000, DEFAULT_CONFIG.apiEndpoint),
     Config(1, MaxQueueSize, 0, 1000, TestEndpoint),
     Config(MaxBatchSize, MaxQueueSize, 0, 2000, DEFAULT_CONFIG.apiEndpoint)}

LiveInit == Init /\ config \in LiveConfig

LiveSpec ==
    /\ LiveInit
    /\ [][Next]_vars
    /\ WF_vars(FlushAllWake)
    /\ WF_vars(\E f \in flights : \E outcome \in FetchOutcomes : Response(f, outcome))
    /\ WF_vars(\E f \in flights : Retry(f))

\* The interval callback of a running timer is called again and again, and
\* every fetch and every backoff sleep ends; the application need not call
\* the queue again.
TimerInit == LiveInit

\* The queue as the Logger drives it while the application runs: entries
\* come in, flushLogs() may be called, the timer is started and stopped;
\* flushAll() belongs to the shutdown path and is left out.
TimerNext ==
    \/ \E level \in LogLevel : Enqueue(level)
    \/ Flush
    \/ Tick
    \/ StartAutoFlush
    \/ StopAutoFlush
    \/ \E f \in flights : \E outcome \in FetchOutcomes : Response(f, outcome)
    \/ \E f \in flights : Retry(f)

TimerSpec ==
    /\ TimerInit
    /\ [][TimerNext]_vars
    /\ WF_vars(Tick)
    /\ WF_vars(\E f \in flights : \E outcome \in FetchOutcomes : Response(f, outcome))
    /\ WF_vars(\E f \in flights : Retry(f))

TypeOK ==
    /\ config \in LoggingConfig
    /\ isFlushInProgress \in BOOLEAN
    /\ autoFlushTimer \in 0..MaxTimers
    /\ timers \subseteq 1..MaxTimers
    /\ flushAllPc \in {"idle", "awaitFlush", "sleeping"}
    /\ flushAllResult \in {"none", "resolved", "rejected"}
    /\ nextId \in 1..(MaxEntries + 1)

\* ---------------------------------------------------------- ConfigManager
\* The fields of LoggingConfig, and for each the values application code
\* passes in a partial configuration: valid ones, and ones validateConfig
\* rejects.
ConfigFields == DOMAIN DEFAULT_CONFIG

FieldValues ==
    [batchSize |-> {-1, 0, 1},
     flushInterval |-> {0},
     maxQueueSize |-> {0},
     retryAttempts |-> {-1, 0},
     retryDelayMs |-> {0},
     apiEndpoint |-> {"", "invalid-url", TestEndpoint},
     logLevel |-> {"debug", "warn", "error", "verbose"},
     enabled |-> {FALSE, TRUE}]

\* {...base, ...partial}
spread(base, partial) ==
    [k \in DOMAIN base \cup DOMAIN partial |->
        IF k \in DOMAIN partial THEN partial[k] ELSE base[k]]

\* The characters a URL scheme is made of (lower case suffices for the
\* endpoints explored).
SchemeChar ==
    {"a", "b", "c", "d", "e", "f", "g", "h", "i", "j", "k", "l", "m", "n", "o",
     "p", "q", "r", "s", "t", "u", "v", "w", "x", "y", "z"}

\* isValidUrl: `new URL(url)` does not throw.  Without a base URL the parser
\* needs a scheme (letters up to the first ":"), and for http something that
\* can be a host after "://".
isValidUrl(url) ==
    \E i \in 2..Len(url) :
        /\ SubSeq(url, i, i) = ":"
        /\ \A j \in 1..(i - 1) : SubSeq(url, j, j) \in SchemeChar
        /\ SubSeq(url, 1, i - 1) = "http"
              => /\ Len(url) > i + 2
                 /\ SubSeq(url, i + 1, i + 2) = "//"
                 /\ SubSeq(url, i + 3, i + 3) \notin {"/", ":", "?", "#"}

\* Mutation: a batchSize of 0 passes (`<` instead of `<=`).
validateConfig_zeroBatch(c) ==
    IF c.batchSize < 0 THEN "Batch size must be greater than 0"
    ELSE IF c.flushInterval <= 0 THEN "Flush interval must be greater than 0"
    ELSE IF c.maxQueueSize <= 0 THEN "Max queue size must be greater than 0"
    ELSE IF c.retryAttempts < 0 THEN "Retry attempts must be non-negative"
    ELSE IF c.retryDelayMs <= 0 THEN "Retry delay must be greater than 0"
    ELSE IF c.apiEndpoint = "" \/ ~isValidUrl(c.apiEndpoint)
         THEN "API endpoint must be a valid URL"
    ELSE IF c.logLevel \notin DOMAIN LOG_LEVELS
         THEN "Invalid log level: " \o c.logLevel
    ELSE "none"

\* validateConfig: the message of the Error it throws for configuration c,
\* "none" when it returns.
validateConfig(c) ==
    IF c.batchSize <= 0 THEN "Batch size must be greater than 0"
    ELSE IF c.flushInterval <= 0 THEN "Flush interval must be greater than 0"
    ELSE IF c.maxQueueSize <= 0 THEN "Max queue size must be greater than 0"
    ELSE IF c.retryAttempts < 0 THEN "Retry attempts must be non-negative"
    ELSE IF c.retryDelayMs <= 0 THEN "Retry delay must be greater than 0"
    ELSE IF c.apiEndpoint = "" \/ ~isValidUrl(c.apiEndpoint)
         THEN "API endpoint must be a valid URL"
    ELSE IF c.logLevel \notin DOMAIN LOG_LEVELS
         THEN "Invalid log level: " \o c.logLevel
    ELSE "none"

\* Mutation: `>` instead of `>=`.
isLogLevelEnabled_strict(c, level) ==
    /\ c.logLevel \in DOMAIN LOG_LEVELS
    /\ LOG_LEVELS[level] > LOG_LEVELS[c.logLevel]

\* isLogLevelEnabled on a ConfigManager holding c.  For a logLevel that is no
\* key of LOG_LEVELS the right-hand side is undefined and `>=` yields false.
isLogLevelEnabled(c, level) ==
    /\ c.logLevel \in DOMAIN LOG_LEVELS
    /\ LOG_LEVELS[level] >= LOG_LEVELS[c.logLevel]

\* ConfigManager.shouldLog on a ConfigManager holding c.
shouldLog(c, level) == c.enabled /\ isLogLevelEnabled(c, level)

\* ConfigManager.getConfig: a copy of the held configuration.
getConfig == cmConfig

\* The partial configurations passed to the constructor and to updateConfig:
\* none, one field, or two fields with values validateConfig rejects.
OneField == UNION {{f :> v : v \in FieldValues[f]} : f \in ConfigFields}

Rejected(f) == {v \in FieldValues[f] : validateConfig(spread(DEFAULT_CONFIG, f :> v)) # "none"}

TwoRejected ==
    UNION {{(f :> v) @@ (g :> w) : v \in Rejected(f), w \in Rejected(g)} :
           <<f, g>> \in {p \in ConfigFields \X ConfigFields : p[1] # p[2]}}

PartialConfig == {<<>>} \cup OneField \cup TwoRejected

\* new ConfigManager(customConfig), while none exists; there is none
\* afterwards either when the constructor throws.
NewConfigManager(customConfig) ==
    /\ cmConfig = NoConfigManager
    /\ LET merged == spread(DEFAULT_CONFIG, customConfig)
           thrown == validateConfig(merged)
       IN  /\ cmConfig' = IF thrown = "none" THEN merged ELSE NoConfigManager
           /\ result' = [call |-> "new ConfigManager", arg |-> customConfig,
                         thrown |-> thrown]
    /\ UNCHANGED <<config, queue, isFlushInProgress, autoFlushTimer, timers,
                   flights, requests, flushAllPc, nextId, delivered, fallback,
                   dropped, console, lastSettled, flushAllResult, drain,
                   isInitialized, isSetup>>

\* updateConfig(updates): the merge is assigned, then validated.
UpdateConfig(updates) ==
    /\ cmConfig # NoConfigManager
    /\ cmConfig' = spread(cmConfig, updates)
    /\ result' = [call |-> "updateConfig", thrown |-> validateConfig(cmConfig')]
    /\ UNCHANGED <<config, queue, isFlushInProgress, autoFlushTimer, timers,
                   flights, requests, flushAllPc, nextId, delivered, fallback,
                   dropped, console, lastSettled, flushAllResult, drain,
                   isInitialized, isSetup>>

\* A call of shouldLog(level) by application code.
ShouldLog(level) ==
    /\ cmConfig # NoConfigManager
    /\ result' = [call |-> "shouldLog", arg |-> level,
                  value |-> shouldLog(cmConfig, level)]
    /\ UNCHANGED <<config, queue, isFlushInProgress, autoFlushTimer, timers,
                   flights, requests, flushAllPc, nextId, delivered, fallback,
                   dropped, console, lastSettled, flushAllResult, drain,
                   cmConfig, isInitialized, isSetup>>

ConfigNext ==
    \/ \E customConfig \in PartialConfig : NewConfigManager(customConfig)
    \/ \E updates \in PartialConfig : UpdateConfig(updates)
    \/ \E level \in LogLevel : ShouldLog(level)

\* No queue is constructed while the ConfigManager is used on its own.
ConfigInit ==
    /\ config = DEFAULT_CONFIG
    /\ QueueFresh
    /\ cmConfig = NoConfigManager
    /\ isInitialized = FALSE
    /\ isSetup = FALSE
    /\ result = NoResult

\* A ConfigManager used on its own, from before its construction.
ConfigSpec == ConfigInit /\ [][ConfigNext]_vars

\* ----------------------------------------------------------------- Logger
VERSION == [major |-> 1, minor |-> 0, build |-> 1]

getVersionString ==
    ToString(VERSION.major) \o "." \o ToString(VERSION.minor) \o "."
        \o ToString(VERSION.build)

EXTENSION_NAME == "Safari Extension Unified Logging"

\* An absent string argument or property (undefined); `||` treats it like "".
Undefined == ""

\* The Error objects application code throws and logs: with a message and a
\* stack, and with neither.
ErrorObject ==
    {[name |-> "Error", message |-> "boom", stack |-> "Error: boom at f"],
     [name |-> "TypeError", message |-> Undefined, stack |-> Undefined]}

\* createLogEntry; id stands for the identity of the new object (and for its
\* timestamp), an absent context is the empty record.
createLogEntry(level, message, context, component, stackTrace) ==
    [id |-> nextId, level |-> level, message |-> message,
     component |-> IF component # Undefined THEN component ELSE "safari-extension",
     source |-> "frontend", context |-> context, stackTrace |-> stackTrace]

\* A Logger method that hands no entry to the queue.
noEntry ==
    /\ console' = <<>>
    /\ Quiet
    /\ UNCHANGED <<config, queue, isFlushInProgress, autoFlushTimer, timers,
                   flights, requests, flushAllPc, nextId, delivered, fallback,
                   dropped>>
    /\ Observe(FALSE)

\* Mutation: the filter reads the configuration the queue was given.
passes_atConstruction(level) == shouldLog(config, level)

\* Mutation: the level filter is not consulted.
passes_unfiltered(level) == TRUE

\* Logger.shouldLog.
passes(level) == shouldLog(cmConfig, level)

\* debug / info / warn / error (level is the method called) and
\* logWithComponent (component given): filter, createLogEntry, enqueue.
log(level, message, component) ==
    IF ~passes(level)
    THEN noEntry
    ELSE enqueueTurn(createLogEntry(level, message, <<>>, component, Undefined))

\* Mutation: the stack is copied as it is, without the sentinel.
stackTraceOf_noSentinel(error) == error.stack

\* error.stack || 'No stack trace available'
stackTraceOf(error) ==
    IF error.stack # Undefined THEN error.stack ELSE "No stack trace available"

\* logException consults neither enabled nor logLevel.
\* logException(error, message, context).
logException(error, message, context) ==
    LET errorMessage ==
            IF message # Undefined THEN message
            ELSE IF error.message # Undefined THEN error.message
            ELSE "An error occurred"
        logEntry ==
            createLogEntry("error", errorMessage,
                           spread(context, [errorName |-> error.name,
                                            errorMessage |-> error.message]),
                           Undefined, stackTraceOf(error))
    IN  enqueueTurn(logEntry)

LoadingMessage == "Loading " \o EXTENSION_NAME \o " " \o getVersionString

\* new Logger(configManager): the queue is constructed with a copy of the
\* configuration, initialize() starts the timer and logs the loading message.
NewLogger ==
    /\ cmConfig # NoConfigManager
    /\ ~isInitialized
    /\ config' = getConfig
    /\ startAutoFlush
    /\ IF passes("info")
       THEN enqueue(createLogEntry("info", LoadingMessage, <<>>, Undefined,
                                   Undefined))
       ELSE /\ console' = <<>>
            /\ UNCHANGED <<queue, isFlushInProgress, flights, requests, nextId,
                           dropped>>
    /\ isInitialized' = TRUE
    /\ result' = [call |-> "new Logger"]
    /\ Quiet
    /\ UNCHANGED <<flushAllPc, delivered, fallback, cmConfig, isSetup>>
    /\ Observe(TRUE)

\* logger.debug / info / warn / error(message).
Log(level) ==
    /\ isInitialized
    /\ result' = [call |-> "log", level |-> level]
    /\ UNCHANGED <<cmConfig, isInitialized, isSetup>>
    /\ log(level, "message", Undefined)

\* logger.logWithComponent(level, message, component).
LogWithComponent(level) ==
    /\ isInitialized
    /\ result' = [call |-> "logWithComponent", level |-> level]
    /\ UNCHANGED <<cmConfig, isInitialized, isSetup>>
    /\ log(level, "message", "popup")

\* logger.logException(error).
LogException(error) ==
    /\ isInitialized
    /\ result' = [call |-> "logException"]
    /\ UNCHANGED <<cmConfig, isInitialized, isSetup>>
    /\ logException(error, Undefined, <<>>)

\* ------------------------------------------------ SafariExceptionHandler
\* new SafariExceptionHandler(): setupGlobalHandlers.
NewExceptionHandler ==
    /\ isInitialized
    /\ ~isSetup
    /\ isSetup' = TRUE
    /\ result' = [call |-> "new SafariExceptionHandler"]
    /\ UNCHANGED <<cmConfig, isInitialized>>
    /\ log("debug", "Global exception handlers set up", Undefined)

captureExceptionWithContext(error, component, action, additionalContext) ==
    logException(error, "Error in " \o component \o " during " \o action,
                 spread(spread([component |-> component, action |-> action],
                               additionalContext),
                        [capturedWithContext |-> TRUE]))

\* What a function passed to the handler does when called: return a value,
\* throw, or return a promise that fulfils or rejects.
Behaviour ==
    {[kind |-> k, value |-> "value"] : k \in {"returns", "fulfils"}}
    \cup {[kind |-> k, error |-> e] : k \in {"throws", "rejects"}, e \in ErrorObject}

Fails(fn) == fn.kind \in {"throws", "rejects"}

\* The arguments the wrapped function is called with.
CallArgs == <<"tab", 7>>

\* Mutation: a rejected promise is passed on without the catch handler.
wrapCatches_syncOnly(fn) == fn.kind = "throws"

\* The failures wrapFunction catches: the catch block around fn(...args)
\* and the handler attached with result.catch.
wrapCatches(fn) == Fails(fn)

\* Mutation: the catch blocks end without `throw error`.
wrapYields_swallows(fn) ==
    CASE fn.kind = "returns" -> [outcome |-> "returned", value |-> fn.value]
      [] fn.kind = "fulfils" -> [outcome |-> "fulfilled", value |-> fn.value]
      [] fn.kind = "throws" -> [outcome |-> "returned", value |-> Undefined]
      [] fn.kind = "rejects" -> [outcome |-> "fulfilled", value |-> Undefined]

\* What a call of the wrapper yields to its caller: `return result`, the
\* promise returned by result.catch, or `throw error`.
wrapYields(fn) ==
    CASE fn.kind = "returns" -> [outcome |-> "returned", value |-> fn.value]
      [] fn.kind = "fulfils" -> [outcome |-> "fulfilled", value |-> fn.value]
      [] fn.kind = "throws" -> [outcome |-> "threw", error |-> fn.error]
      [] fn.kind = "rejects" -> [outcome |-> "rejected", error |-> fn.error]

\* A call of wrapFunction(fn, context)(...CallArgs), up to the settlement of
\* the promise it returns.
WrapCall(fn) ==
    /\ isSetup
    /\ result' = [call |-> "wrapFunction", fn |-> fn, yields |-> wrapYields(fn)]
    /\ UNCHANGED <<cmConfig, isInitialized, isSetup>>
    /\ IF wrapCatches(fn)
       THEN captureExceptionWithContext(fn.error, "popup", "save",
                                        [arguments |-> CallArgs])
       ELSE noEntry

Null == "null"

\* Mutation: the catch block re-throws.
swallowed_rethrows(fn, fallbackValue) ==
    IF Fails(fn) THEN [outcome |-> "rejected", error |-> fn.error]
    ELSE [outcome |-> "fulfilled", value |-> fn.value]

\* The promise of captureAsyncException and safeExecute: `return await
\* operation()` or, from the catch block, `return` of the fallback.
swallowed(fn, fallbackValue) ==
    [outcome |-> "fulfilled",
     value |-> IF Fails(fn) THEN fallbackValue ELSE fn.value]

\* captureAsyncException(asyncOperation, context) with an operation that
\* behaves as fn; context is {component, action}.
CaptureAsyncException(fn) ==
    /\ isSetup
    /\ result' = [call |-> "captureAsyncException", fn |-> fn,
                  yields |-> swallowed(fn, Null)]
    /\ UNCHANGED <<cmConfig, isInitialized, isSetup>>
    /\ IF Fails(fn)
       THEN captureExceptionWithContext(fn.error, "popup", "load",
                                        [component |-> "popup", action |-> "load"])
       ELSE noEntry

\* safeExecute(operation, context, fallbackValue), the global handler being
\* set up already.
SafeExecute(fn, fallbackValue) ==
    /\ isSetup
    /\ result' = [call |-> "safeExecute", fn |-> fn, fallbackValue |-> fallbackValue,
                  yields |-> swallowed(fn, fallbackValue)]
    /\ UNCHANGED <<cmConfig, isInitialized, isSetup>>
    /\ IF Fails(fn)
       THEN captureExceptionWithContext(fn.error, "popup", "open", <<>>)
       ELSE noEntry

\* The configurations the Logger is explored with: every logLevel, enabled
\* or not, batches of MaxBatchSize, no retry.
LoggerConfig ==
    {spread(DEFAULT_CONFIG,
            [batchSize |-> MaxBatchSize, maxQueueSize |-> MaxQueueSize,
             retryAttempts |-> 0, apiEndpoint |-> TestEndpoint,
             logLevel |-> l, enabled |-> e]) :
        l \in LogLevel, e \in BOOLEAN}

\* A ConfigManager constructed with a valid configuration; no Logger yet.
LoggerInit ==
    /\ cmConfig \in LoggerConfig
    /\ config = DEFAULT_CONFIG
    /\ QueueFresh
    /\ isInitialized = FALSE
    /\ isSetup = FALSE
    /\ result = NoResult

LoggerNext ==
    \/ NewLogger
    \/ \E level \in LogLevel : Log(level)
    \/ \E level \in LogLevel : LogWithComponent(level)
    \/ \E error \in ErrorObject : LogException(error)
    \/ Tick
    \/ \E f \in flights : \E outcome \in FetchOutcomes : Response(f, outcome)

\* A Logger and the application code that logs through it.
LoggerSpec == LoggerInit /\ [][LoggerNext]_vars

\* The partial configurations application code passes to updateConfig while
\* a Logger exists: a lower or a higher logLevel, logging switched off, or
\* new values for every field the queue and the timer were constructed with.  All of them
\* pass validateConfig.
LoggerUpdates ==
    {[logLevel |-> "debug"], [logLevel |-> "error"], [enabled |-> FALSE],
     [batchSize |-> 1, maxQueueSize |-> MaxQueueSize + 1,
      retryAttempts |-> MaxRetryAttempts, retryDelayMs |-> 100,
      apiEndpoint |-> DEFAULT_CONFIG.apiEndpoint, flushInterval |-> 1000]}

\* A ConfigManager at logLevel info with logging enabled; no Logger yet.
UpdateInit ==
    /\ LoggerInit
    /\ cmConfig.logLevel = "info"
    /\ cmConfig.enabled

UpdateNext ==
    \/ NewLogger
    \/ \E updates \in LoggerUpdates : isInitialized /\ UpdateConfig(updates)
    \/ \E level \in LogLevel : Log(level)
    \/ Tick
    \/ \E f \in flights : \E outcome \in FetchOutcomes : Response(f, outcome)

\* A Logger whose ConfigManager is updated while the application logs.
UpdateSpec == UpdateInit /\ [][UpdateNext]_vars

\* The response to a transport call while the exception handler is set up.
\* A failed call would re-enter the Logger through the intercepted fetch and
\* console.error; those runs are left out here: the backend answers every
\* call with a 2xx response.
HandlerResponse(f, outcome) ==
    /\ sendBatchResolves(outcome)
    /\ Response(f, outcome)

HandlerNext ==
    \/ NewLogger
    \/ NewExceptionHandler
    \/ \E fn \in Behaviour : WrapCall(fn)
    \/ \E fn \in Behaviour : CaptureAsyncException(fn)
    \/ \E fn \in Behaviour : \E fallbackValue \in {Undefined, "fallback"} :
          SafeExecute(fn, fallbackValue)
    \/ Tick
    \/ \E f \in flights : \E outcome \in FetchOutcomes : HandlerResponse(f, outcome)

\* The exception handler is explored with the lowest and the highest
\* logLevel, enabled or not.
HandlerInit ==
    /\ LoggerInit
    /\ cmConfig.logLevel \in {"debug", "error"}

\* A Logger, the exception handler and the application code that runs
\* functions under it.
HandlerSpec == HandlerInit /\ [][HandlerNext]_vars

\* --------------------------------------- the handler's hooks on the queue
\* The queue calls the global fetch and console.error, which
\* setupGlobalHandlers replaces: every failed transport call and every
\* console.error line of the queue calls back into the Logger.

\* The fields of the queue a chain of calls within one turn works on, and
\* the console lines written so far in the turn.
Fields ==
    [queue |-> queue, dropped |-> dropped, nextId |-> nextId,
     isFlushInProgress |-> isFlushInProgress, flights |-> flights,
     requests |-> requests, console |-> <<>>]

\* enqueue(logEntry) on the fields st; the entry takes the next identity.
enqueueOn(st, logEntry) ==
    LET o == IF isAtCapacity(st.queue)
             THEN handleQueueOverflow(st.queue)
             ELSE [queue |-> st.queue, console |-> <<>>, dropped |-> {},
                   branch |-> "none"]
        pushed == Append(o.queue, [logEntry EXCEPT !.id = st.nextId])
        starts == /\ reachedBatchSize(pushed)
                  /\ ~flushIsNoop(pushed, st.isFlushInProgress)
        s == spliceBatch(pushed)
    IN  [queue |-> IF starts THEN s.rest ELSE pushed,
         dropped |-> st.dropped \cup o.dropped,
         nextId |-> st.nextId + 1,
         isFlushInProgress |-> st.isFlushInProgress \/ starts,
         flights |-> IF starts THEN st.flights \cup {Flight(s.batch, "enqueue")}
                     ELSE st.flights,
         requests |-> IF starts THEN st.requests \cup {s.batch} ELSE st.requests,
         console |-> st.console \o o.console]

\* logger.warn / logger.error(message, context) called by a hook.
logOn(st, level, message, context) ==
    IF passes(level)
    THEN enqueueOn(st, createLogEntry(level, message, context, Undefined,
                                      Undefined))
    ELSE st

\* captureException(error, context): logException(error, undefined, ...).
captureException(st, error, context) ==
    enqueueOn(st,
        createLogEntry("error",
                       IF error.message # Undefined THEN error.message
                       ELSE "An error occurred",
                       spread(spread(context, [capturedManually |-> TRUE]),
                              [errorName |-> error.name,
                               errorMessage |-> error.message]),
                       Undefined, stackTraceOf(error)))

\* What fetch rejects with.
fetchError(outcome) ==
    IF outcome = "timeout"
    THEN [name |-> "AbortError", message |-> "The operation was aborted.",
          stack |-> Undefined]
    ELSE [name |-> "TypeError", message |-> "Failed to fetch",
          stack |-> "TypeError: Failed to fetch"]

\* The replaced window.fetch once the original call has settled.
fetchHook(st, outcome) ==
    IF ~isSetup THEN st
    ELSE CASE outcome = "http" ->
                 logOn(st, "warn", "HTTP request failed", [type |-> "http-error"])
           [] outcome \in {"network", "timeout"} ->
                 captureException(st, fetchError(outcome), [type |-> "fetch-error"])
           [] OTHER -> st

\* console.warn / console.debug / console.info: not replaced.
write(st, line) == [st EXCEPT !.console = Append(@, line)]

\* console.error(firstArg, ...) with a string first argument: the original
\* writes the line, the replacement then logs it.
consoleError(st, line, firstArg) ==
    IF isSetup
    THEN logOn(write(st, line), "error", firstArg, [type |-> "console-error"])
    ELSE write(st, line)

\* batch.forEach(entry => this.logToConsole(entry)) from position i on.
RECURSIVE logToConsoleFrom(_, _, _)
logToConsoleFrom(st, batch, i) ==
    IF i > Len(batch) THEN st
    ELSE LET entry == batch[i]
             line == logToConsole(entry)
             next == IF consoleMethod(entry.level) = "error"
                     THEN consoleError(st, line,
                                       "[" \o toUpperCase(entry.level) \o "] "
                                           \o entry.message)
                     ELSE write(st, line)
         IN  logToConsoleFrom(next, batch, i + 1)

\* The catch block of sendBatchWithRetry after the last attempt, the finally
\* block of flush(), and the .catch handler of the caller of flush().
exhausted(st, f) ==
    LET text == "Log transmission failed after all retry attempts:"
        reported == consoleError(st, Line("error", text, "", 0), text)
        warned == write(reported,
                        Line("warn",
                             "Falling back to console logging due to backend unavailability",
                             "", 0))
        written == logToConsoleFrom(warned, f.batch, 1)
        settled == [written EXCEPT !.isFlushInProgress = flagAfterSettle("rejected"),
                                   !.flights = @ \ {f}]
    IN  IF rejectionHandler(f.origin) = "catch"
        THEN consoleError(settled, catchLines(f.origin)[1],
                          catchLines(f.origin)[1].text)
        ELSE settled

\* The outstanding fetch of flight f completes with the given outcome while
\* the hooks of the exception handler may be installed.
HookedResponse(f, outcome) ==
    /\ f.pc = "sending"
    /\ f.batch \in requests
    /\ LET hooked == fetchHook([Fields EXCEPT !.requests = @ \ {f.batch}], outcome)
           retries == ~sendBatchResolves(outcome) /\ mayRetry(f.attemptNumber)
           st == IF sendBatchResolves(outcome)
                 THEN [hooked EXCEPT !.isFlushInProgress = flagAfterSettle("resolved"),
                                     !.flights = @ \ {f}]
                 ELSE IF retries
                 THEN write([hooked EXCEPT !.flights = (@ \ {f}) \cup
                                {[f EXCEPT !.pc = "sleeping",
                                           !.delay = backoffDelay(f.attemptNumber)]}],
                            Line("warn", "Log transmission failed, retrying", "",
                                 f.attemptNumber + 1))
                 ELSE exhausted(hooked, f)
       IN  /\ st.nextId <= MaxEntries + MaxFeedback + 1
           /\ queue' = st.queue
           /\ dropped' = st.dropped
           /\ nextId' = st.nextId
           /\ isFlushInProgress' = st.isFlushInProgress
           /\ flights' = st.flights
           /\ requests' = st.requests
           /\ console' = st.console
           /\ lastSettled' =
                 IF retries THEN NoSettle
                 ELSE [origin |-> f.origin,
                       outcome |-> IF sendBatchResolves(outcome)
                                   THEN "resolved" ELSE "rejected",
                       error |-> IF sendBatchResolves(outcome)
                                 THEN "none" ELSE outcome,
                       handler |-> IF sendBatchResolves(outcome) THEN "none"
                                   ELSE rejectionHandler(f.origin),
                       calls |-> f.calls]
           /\ delivered' = IF sendBatchResolves(outcome)
                           THEN delivered \cup Ids(f.batch) ELSE delivered
           /\ fallback' = IF ~sendBatchResolves(outcome) /\ ~retries
                          THEN fallback \cup Ids(f.batch) ELSE fallback
    /\ flushAllResult' = "none"
    /\ UNCHANGED <<config, autoFlushTimer, timers, flushAllPc>>
    /\ UNCHANGED appVars
    /\ Observe(~sendBatchResolves(outcome))

\* The backend under the exception handler: logLevel warn, enabled or not.
FeedbackInit ==
    /\ LoggerInit
    /\ cmConfig.logLevel = "warn"

FeedbackNext ==
    \/ NewLogger
    \/ NewExceptionHandler
    \/ \E level \in LogLevel : Log(level)
    \/ Tick
    \/ \E f \in flights : \E outcome \in FetchOutcomes : HookedResponse(f, outcome)

\* A Logger, the exception handler, application code that logs, and a
\* backend that may fail.
FeedbackSpec == FeedbackInit /\ [][FeedbackNext]_vars

\* ------------------------------------------------- Chrome UnifiedLogger
\* The Chrome extension's logger keeps its own queue, timer and sends.  Its
\* fields are held in the variables of the same role: queue, flights (the
\* flush() activations awaiting sendToBackend), requests (their outstanding
\* fetch calls), timers and autoFlushTimer (flushTimer), config, console,
\* delivered and dropped; isFlushInProgress has no counterpart and stays
\* FALSE.

\* LoggerConfig of shared/types.ts.
ChromeConfig(b, m, r) ==
    [apiEndpoint |-> "http://localhost:8000/api/logs", batchSize |-> b,
     flushInterval |-> 2000, maxQueueSize |-> m, logLevel |-> "info",
     retryAttempts |-> r, retryDelay |-> 1000, enableConsoleLogging |-> r = 0]

\* The configurations explored: single-entry batches, batches as long as
\* the queue, and one without retries (the one that also logs to the
\* console).
ChromeConfigs ==
    {ChromeConfig(1, MaxQueueSize, 1),
     ChromeConfig(MaxBatchSize, MaxQueueSize, MaxRetryAttempts),
     ChromeConfig(MaxBatchSize, MaxQueueSize + 1, 0)}

\* Outcomes of one fetch as sendToBackend sees them: 2xx with
\* {"status": "success"} ("ok"), 2xx with another body, a non-2xx response,
\* a rejected fetch.  No AbortController is used.
ChromeOutcomes == {"ok", "bodyError", "http", "network"}

\* levels.indexOf(level) >= levels.indexOf(this.config.logLevel)
chromeIsLogLevelEnabled(level) == LOG_LEVELS[level] >= LOG_LEVELS[config.logLevel]

\* this.queue.slice(-this.config.maxQueueSize) when the queue is too long.
keepRecent(q) ==
    IF Len(q) > config.maxQueueSize
    THEN SubSeq(q, Len(q) - config.maxQueueSize + 1, Len(q))
    ELSE q

\* The catch block of flush(): the batch goes back to the head of the queue
\* when it is shorter than maxQueueSize.
requeue(q, batch) ==
    IF Len(batch) < config.maxQueueSize THEN batch \o q ELSE q

\* A flush() activation awaiting sendToBackend(batch); attempts count from 1.
ChromeFlight(batch, origin) ==
    [batch |-> batch, origin |-> origin, attemptNumber |-> 1,
     pc |-> "sending", delay |-> 0, calls |-> 1]

\* flush() called with queue q, to the end of the turn: the whole queue
\* becomes the batch and sendToBackend makes its first fetch; with
\* retryAttempts < 1 its loop makes none, it throws lastError (null) and the
\* catch block of flush() runs in the same turn.
chromeFlush(q, origin) ==
    IF Len(q) = 0
    THEN [queue |-> q, flights |-> flights, requests |-> requests,
          console |-> <<>>, failed |-> FALSE]
    ELSE IF 1 <= config.retryAttempts
    THEN [queue |-> <<>>, flights |-> flights \cup {ChromeFlight(q, origin)},
          requests |-> requests \cup {q}, console |-> <<>>, failed |-> FALSE]
    ELSE [queue |-> requeue(<<>>, q), flights |-> flights, requests |-> requests,
          console |-> <<Line("error", "Failed to send log batch:", "", 0)>>,
          failed |-> TRUE]

\* The fields a turn that called flush() leaves behind; `lines` is what the
\* turn wrote to the console before the catch block of flush() ran.
ApplyChromeFlush(r, origin, lines) ==
    /\ queue' = r.queue
    /\ flights' = r.flights
    /\ requests' = r.requests
    /\ console' = lines \o r.console
    /\ lastSettled' = IF r.failed
                      THEN [origin |-> origin, outcome |-> "rejected",
                            error |-> "null", handler |-> "catch", calls |-> 0]
                      ELSE NoSettle

\* new UnifiedLogger(config, version): the constructor starts the timer.
ChromeInit ==
    /\ config \in ChromeConfigs
    /\ queue = <<>>
    /\ isFlushInProgress = FALSE
    /\ autoFlushTimer = 1
    /\ timers = {1}
    /\ flights = {}
    /\ requests = {}
    /\ flushAllPc = "idle"
    /\ nextId = 1
    /\ delivered = {}
    /\ fallback = {}
    /\ dropped = {}
    /\ console = <<>>
    /\ lastSettled = NoSettle
    /\ flushAllResult = "none"
    /\ drain = NoDrain
    /\ cmConfig = NoConfigManager
    /\ isInitialized = FALSE
    /\ isSetup = FALSE
    /\ result = NoResult

\* What no method of UnifiedLogger has a counterpart for.
ChromeFrame ==
    UNCHANGED <<config, isFlushInProgress, flushAllPc, fallback, flushAllResult,
                drain, appVars>>

\* logToConsole(entry), called when enableConsoleLogging is set.
chromeLogToConsole(entry) ==
    IF config.enableConsoleLogging
    THEN <<Line(consoleMethod(entry.level), "entry", toUpperCase(entry.level),
                entry.id)>>
    ELSE <<>>

\* debug / info / warn / error(message): log -> enqueue -> flush.
ChromeLog(level) ==
    /\ nextId <= MaxEntries
    /\ IF ~chromeIsLogLevelEnabled(level)
       THEN /\ console' = <<>>
            /\ lastSettled' = NoSettle
            /\ UNCHANGED <<queue, flights, requests, nextId, dropped>>
       ELSE LET entry == [id |-> nextId, level |-> level]
                pushed == Append(queue, entry)
                kept == keepRecent(pushed)
            IN  /\ nextId' = nextId + 1
                /\ dropped' = dropped \cup (Ids(pushed) \ Ids(kept))
                /\ IF Len(kept) >= config.batchSize
                   THEN ApplyChromeFlush(chromeFlush(kept, "enqueue"), "enqueue",
                                         chromeLogToConsole(entry))
                   ELSE /\ queue' = kept
                        /\ console' = chromeLogToConsole(entry)
                        /\ lastSettled' = NoSettle
                        /\ UNCHANGED <<flights, requests>>
    /\ UNCHANGED <<autoFlushTimer, timers, delivered>>
    /\ ChromeFrame

\* The setInterval callback of startAutoFlush: this.flush().
ChromeTick ==
    /\ timers # {}
    /\ ApplyChromeFlush(chromeFlush(queue, "timer"), "timer", <<>>)
    /\ UNCHANGED <<autoFlushTimer, timers, nextId, delivered, dropped>>
    /\ ChromeFrame

\* forceFlush(): await this.flush().
ForceFlush ==
    /\ ApplyChromeFlush(chromeFlush(queue, "manual"), "manual", <<>>)
    /\ UNCHANGED <<autoFlushTimer, timers, nextId, delivered, dropped>>
    /\ ChromeFrame

\* destroy(): the timer is cleared and a final flush() is made.
Destroy ==
    /\ IF autoFlushTimer # 0
       THEN /\ timers' = timers \ {autoFlushTimer}
            /\ autoFlushTimer' = 0
       ELSE UNCHANGED <<timers, autoFlushTimer>>
    /\ ApplyChromeFlush(chromeFlush(queue, "destroy"), "destroy", <<>>)
    /\ UNCHANGED <<nextId, delivered, dropped>>
    /\ ChromeFrame

\* const delay = this.config.retryDelay * Math.pow(2, attempt - 1)
chromeDelay(attempt) == config.retryDelay * 2 ^ (attempt - 1)

\* The outstanding fetch of flight f completes: sendToBackend returns, sleeps
\* before the next attempt, or throws after the last one into the catch
\* block of flush().
ChromeResponse(f, outcome) ==
    /\ f.pc = "sending"
    /\ f.batch \in requests
    /\ requests' = requests \ {f.batch}
    /\ IF outcome = "ok"
       THEN /\ flights' = flights \ {f}
            /\ delivered' = delivered \cup Ids(f.batch)
            /\ console' = <<>>
            /\ lastSettled' = [origin |-> f.origin, outcome |-> "resolved",
                               error |-> "none", handler |-> "none",
                               calls |-> f.calls]
            /\ UNCHANGED queue
       ELSE IF f.attemptNumber < config.retryAttempts
       THEN /\ flights' = (flights \ {f}) \cup
                  {[f EXCEPT !.pc = "sleeping",
                             !.delay = chromeDelay(f.attemptNumber)]}
            /\ console' = <<>>
            /\ lastSettled' = NoSettle
            /\ UNCHANGED <<queue, delivered>>
       ELSE /\ flights' = flights \ {f}
            /\ queue' = requeue(queue, f.batch)
            /\ console' = <<Line("error", "Failed to send log batch:", "", 0)>>
            /\ lastSettled' = [origin |-> f.origin, outcome |-> "rejected",
                               error |-> outcome, handler |-> "catch",
                               calls |-> f.calls]
            /\ UNCHANGED delivered
    /\ UNCHANGED <<autoFlushTimer, timers, nextId, dropped>>
    /\ ChromeFrame

\* The sleep between two attempts of sendToBackend elapsed: the next fetch.
ChromeRetry(f) ==
    /\ f.pc = "sleeping"
    /\ flights' = (flights \ {f}) \cup
          {[f EXCEPT !.pc = "sending", !.delay = 0, !.attemptNumber = @ + 1,
                     !.calls = @ + 1]}
    /\ requests' = requests \cup {f.batch}
    /\ console' = <<>>
    /\ lastSettled' = NoSettle
    /\ UNCHANGED <<queue, autoFlushTimer, timers, nextId, delivered, dropped>>
    /\ ChromeFrame

ChromeNext ==
    \/ \E level \in LogLevel : ChromeLog(level)
    \/ ChromeTick
    \/ ForceFlush
    \/ Destroy
    \/ \E f \in flights : \E outcome \in ChromeOutcomes : ChromeResponse(f, outcome)
    \/ \E f \in flights : ChromeRetry(f)

\* A UnifiedLogger and the code of the Chrome extension that logs through it.
ChromeSpec == ChromeInit /\ [][ChromeNext]_vars

\* ------------------------------------------------------------ properties
InFlight == UNION {Ids(f.batch) : f \in flights}

Accepted == 1..(nextId - 1)

Rank(e) == LOG_LEVELS[e.level]

\* The turn is a call of enqueue.
EnqueueStep == nextId' = nextId + 1

\* The entries queued or taken into a batch by the turn, in queue order:
\* the batch of the flush the turn started (if any) followed by the queue.
AfterEnqueue ==
    IF flights' \ flights = {}
    THEN queue'
    ELSE (CHOOSE f \in flights' \ flights : TRUE).batch \o queue'

OverflowWarning(level) ==
    \E i \in 1..Len(console) :
        /\ console[i].method = "warn"
        /\ console[i].text = "Log queue overflow: dropped message"
        /\ console[i].level = level

\* C1: at most one flush executes at any time - at most one batch in flight
\* and at most one transport call outstanding - and while isFlushInProgress
\* is set no turn other than an enqueue changes the queue and no turn other
\* than the retry of the batch in flight issues a transport call, so a
\* flush() called then (directly, by the timer or by flushAll) removes no
\* entry and calls no transport.
C1_SingleFlight ==
    /\ [](/\ Cardinality(flights) <= 1
          /\ Cardinality(requests) <= 1
          /\ isFlushInProgress =>
                \A origin \in {"manual", "timer", "flushAll", "enqueue"} :
                    /\ ~flush(queue, origin).started
                    /\ flush(queue, origin).queue = queue
                    /\ flush(queue, origin).requests = requests)
    /\ [][isFlushInProgress =>
            /\ ~EnqueueStep => queue' = queue
            /\ ~(requests' \subseteq requests) =>
                  \E f \in flights :
                      /\ f.pc = "sleeping"
                      /\ requests' = requests \cup {f.batch}
            /\ Cardinality(flights') <= 1]_vars

C1_Witness ==
    /\ isFlushInProgress
    /\ Cardinality(requests) = 1
    /\ Len(queue) >= config.batchSize
    /\ timers # {}
    /\ flushAllPc = "sleeping"

\* C2: the queue length never exceeds maxQueueSize.
C2_QueueBounded == Len(queue) <= config.maxQueueSize

C2_Witness ==
    /\ Len(queue) = config.maxQueueSize
    /\ dropped # {}

C4_Original ==
    [][(/\ EnqueueStep
        /\ Len(queue) >= config.maxQueueSize
        /\ AfterEnqueue[Len(AfterEnqueue)].level # "error") =>
        \A i \in 1..Len(queue) :
            queue[i].level = "error" => queue[i].id \notin dropped']_vars

\* C4 (amended): enqueuing a debug, info or warn entry into a full queue
\* never removes an error-level entry as long as the queue holds an entry
\* below error level; when every queued entry is error-level, the oldest
\* one is evicted.
C4_ErrorsSurvive ==
    [][(/\ EnqueueStep
        /\ Len(queue) >= config.maxQueueSize
        /\ AfterEnqueue[Len(AfterEnqueue)].level # "error") =>
        IF \E j \in 1..Len(queue) : queue[j].level # "error"
        THEN \A i \in 1..Len(queue) :
                queue[i].level = "error" => queue[i].id \notin dropped'
        ELSE dropped' = dropped \cup {queue[1].id}]_vars

C4_Witness ==
    /\ dropped # {}
    /\ \E l \in {"debug", "info", "warn"} : OverflowWarning(l)
    /\ Len(queue) >= 2
    /\ queue[1].level = "error"
    /\ queue[Len(queue)].level # "error"
    /\ queue[Len(queue)].id = nextId - 1

IsIncreasing(q) == \A i, j \in 1..Len(q) : i < j => q[i].id < q[j].id

Places(id) ==
    <<id \in Ids(queue), id \in InFlight, id \in delivered, id \in fallback,
      id \in dropped>>

EntryWritten(e) ==
    \E i \in 1..Len(console') :
        /\ console'[i].text = "entry"
        /\ console'[i].arg = e.id

\* C5: every accepted entry is at all times in exactly one of five places -
\* the queue, the single in-flight batch, delivered, console fallback or
\* evicted; none is duplicated; an entry becomes evicted only in a turn that
\* writes the overflow warning naming its level, falls back only out of the
\* batch in flight in a turn that writes it to the console, and is delivered
\* only out of the batch in flight.
C5_NoSilentLoss ==
    /\ [](/\ \A id \in Accepted :
                Cardinality({k \in 1..5 : Places(id)[k]}) = 1
          /\ Ids(queue) \cup InFlight \cup delivered \cup fallback \cup dropped
                \subseteq Accepted
          /\ Cardinality(Ids(queue)) = Len(queue)
          /\ Cardinality(flights) <= 1
          /\ \A f \in flights : Cardinality(Ids(f.batch)) = Len(f.batch))
    /\ [][/\ \A i \in 1..Len(queue) :
                queue[i].id \in dropped' =>
                    \E k \in 1..Len(console') :
                        /\ console'[k].method = "warn"
                        /\ console'[k].text = "Log queue overflow: dropped message"
                        /\ console'[k].level = queue[i].level
          /\ dropped' \ dropped \subseteq Ids(queue)
          /\ \A f \in flights : \A i \in 1..Len(f.batch) :
                f.batch[i].id \in fallback' => EntryWritten(f.batch[i])
          /\ (fallback' \ fallback) \cup (delivered' \ delivered) \subseteq InFlight
         ]_vars

C5_Witness ==
    /\ dropped # {}
    /\ fallback # {}
    /\ queue # <<>>
    /\ lastSettled.outcome = "rejected"

\* C6: for one batch the transport is called one call at a time and the
\* calls stop at the first success or after retryAttempts + 1 failures: a
\* flush that resolves has made k <= retryAttempts + 1 calls of which only
\* the last succeeded, a flush that rejects has made exactly
\* retryAttempts + 1 calls, whatever the kinds of the failures.
C6_CallCount ==
    /\ [](/\ Cardinality(requests) <= 1
          /\ \A f \in flights :
                /\ f.calls <= config.retryAttempts + 1
                /\ (f.pc = "sending") = (f.batch \in requests)
          /\ lastSettled.outcome = "resolved" =>
                /\ lastSettled.calls >= 1
                /\ lastSettled.calls <= config.retryAttempts + 1
          /\ lastSettled.outcome = "rejected" =>
                /\ lastSettled.error \in FetchFailures
                /\ lastSettled.calls = config.retryAttempts + 1)
    /\ [][\A f \in flights :
            /\ (f.pc = "sending" /\ f.batch \notin requests') =>
                  \/ /\ flights' = flights \ {f}
                     /\ lastSettled'.outcome = "resolved"
                     /\ lastSettled'.calls = f.calls
                  \/ /\ f.calls < config.retryAttempts + 1
                     /\ \E g \in flights' :
                           /\ flights' = (flights \ {f}) \cup {g}
                           /\ g.pc = "sleeping"
                           /\ g.batch = f.batch
                           /\ g.calls = f.calls
                     /\ lastSettled'.outcome = "none"
                  \/ /\ f.calls = config.retryAttempts + 1
                     /\ flights' = flights \ {f}
                     /\ lastSettled'.outcome = "rejected"
                     /\ lastSettled'.calls = f.calls
            /\ (f.pc = "sleeping" /\ f \notin flights') =>
                  /\ \E g \in flights' :
                        /\ g.batch = f.batch
                        /\ g.calls = f.calls + 1
                        /\ g.pc = "sending"
                  /\ requests' = requests \cup {f.batch}]_vars

\* Three calls for retryAttempts = 2, the last one failing by timeout.
C6_Witness ==
    /\ config.retryAttempts = 2
    /\ lastSettled.outcome = "rejected"
    /\ lastSettled.calls = 3
    /\ lastSettled.error = "timeout"

\* C7: the turn in which the last of the retryAttempts + 1 calls of a batch
\* fails writes the fallback marker and then every entry of the batch once,
\* in batch order, each with the console method of its own level; the
\* rejection of flush() (and the line of a .catch handler) comes after them,
\* with the error of the last call, and no entry of the batch is queued
\* again.  The turn in which a call succeeds writes nothing and resolves.
C7_FallbackOnExhaustion ==
    [][\A f \in flights :
          (flights' = flights \ {f} /\ f.pc = "sending") =>
             IF lastSettled'.outcome = "rejected"
             THEN /\ f.calls = config.retryAttempts + 1
                  /\ lastSettled'.error \in FetchFailures
                  /\ Len(console') \in {Len(f.batch) + 2, Len(f.batch) + 3}
                  /\ console'[2].method = "warn"
                  /\ console'[2].text =
                        "Falling back to console logging due to backend unavailability"
                  /\ \A i \in 1..Len(f.batch) :
                        /\ console'[i + 2].text = "entry"
                        /\ console'[i + 2].arg = f.batch[i].id
                        /\ console'[i + 2].method = f.batch[i].level
                  /\ \A i \in (Len(f.batch) + 3)..Len(console') :
                        console'[i].text # "entry"
                  /\ Ids(f.batch) \cap Ids(queue') = {}
                  /\ queue' = queue
             ELSE /\ lastSettled'.outcome = "resolved"
                  /\ console' = <<>>
                  /\ Ids(f.batch) \subseteq delivered'
                  /\ Ids(f.batch) \cap fallback' = {}]_vars

C7_Witness ==
    /\ lastSettled.outcome = "rejected"
    /\ lastSettled.handler = "caller"
    /\ Len(console) = 4
    /\ console[3].text = "entry"
    /\ console[4].text = "entry"
    /\ console[3].method # console[4].method
    /\ console[3].arg < console[4].arg

\* C8: isFlushInProgress is set exactly while a flush is executing; in the
\* state a flush() settles in - resolved or rejected - the flag is clear.
C8_FlagTracksFlush ==
    /\ isFlushInProgress <=> flights # {}
    /\ lastSettled.outcome \in {"resolved", "rejected"} => ~isFlushInProgress

\* A flush runs after an earlier batch was rejected.
C8_Witness ==
    /\ fallback # {}
    /\ isFlushInProgress
    /\ flights # {}

\* C9: enqueue is accepted in every state and is one synchronous turn that
\* settles nothing towards its caller; when the flush it triggered is
\* rejected, the rejection ends in the .catch handler of enqueue, which
\* writes 'Auto-flush failed:' to the console, and the entry stays accepted.
C9_EnqueueNeverThrows ==
    /\ [](/\ nextId <= MaxEntries => \A level \in LogLevel : ENABLED Enqueue(level)
          /\ (lastSettled.origin = "enqueue" /\ lastSettled.outcome = "rejected") =>
                /\ lastSettled.handler = "catch"
                /\ Len(console) > 0
                /\ console[Len(console)] = Line("error", "Auto-flush failed:", "", 0))
    /\ [][EnqueueStep =>
            /\ lastSettled' = NoSettle
            /\ nextId \in Ids(queue') \cup UNION {Ids(f.batch) : f \in flights'}
            /\ \A f \in flights' \ flights : f.origin = "enqueue"]_vars

C9_Witness ==
    /\ lastSettled.origin = "enqueue"
    /\ lastSettled.outcome = "rejected"
    /\ nextId - 1 \in fallback

\* C10: as long as no overflow eviction has occurred, entries leave for the
\* transport (or the console fallback) in enqueue order: every entry already
\* delivered or fallen back was enqueued before every entry of the batch in
\* flight, those before every queued entry, and batch and queue are in
\* enqueue order.
C10_FifoWithoutEviction ==
    dropped = {} =>
        /\ IsIncreasing(queue)
        /\ \A f \in flights : IsIncreasing(f.batch)
        /\ \A a \in delivered \cup fallback : \A b \in InFlight \cup Ids(queue) : a < b
        /\ \A a \in InFlight : \A b \in Ids(queue) : a < b

\* Two batches have left, one delivered and one fallen back, with no eviction.
C10_Witness ==
    /\ dropped = {}
    /\ delivered # {}
    /\ fallback # {}
    /\ Cardinality(delivered \cup fallback) >= 3

\* The flush() activations the turn started.
NewFlights == {f \in flights' : \A g \in flights : g.batch # f.batch}

\* C11: with no flush in flight and batchSize <= maxQueueSize, an enqueue
\* that leaves fewer than batchSize entries queued starts no flush and makes
\* no transport call, and the enqueue that brings the queue to batchSize
\* entries - the batchSize-th since the queue was empty - itself starts
\* exactly one flush, with exactly one transport call, whose batch is those
\* batchSize entries in order, and empties the queue.
C11_BatchTrigger ==
    [][(/\ EnqueueStep
        /\ ~isFlushInProgress
        /\ config.batchSize <= config.maxQueueSize
        /\ Len(queue) < config.batchSize) =>
        \E level \in LogLevel :
            LET pushed == Append(queue, [id |-> nextId, level |-> level])
            IN  IF Len(pushed) < config.batchSize
                THEN /\ queue' = pushed
                     /\ flights' = flights
                     /\ requests' = requests
                     /\ ~isFlushInProgress'
                ELSE /\ queue' = <<>>
                     /\ \E f \in flights' :
                           /\ flights' = flights \cup {f}
                           /\ f \notin flights
                           /\ f.batch = pushed
                           /\ f.origin = "enqueue"
                           /\ f.calls = 1
                     /\ requests' = requests \cup {pushed}
                     /\ pushed \notin requests
                     /\ isFlushInProgress']_vars

\* The first MaxBatchSize enqueues after construction, and nothing else.
C11_Witness ==
    /\ config.batchSize = MaxBatchSize
    /\ nextId = config.batchSize + 1
    /\ queue = <<>>
    /\ timers = {}
    /\ delivered \cup fallback \cup dropped = {}
    /\ \E f \in flights :
          /\ f.origin = "enqueue"
          /\ f.calls = 1
          /\ Len(f.batch) = config.batchSize
          /\ Ids(f.batch) = 1..config.batchSize

\* C12: the turn in which a flush starts on a queue of n > 0 entries moves
\* the min(batchSize, n) entries nearest the head, in order, into the batch
\* and leaves the others queued in order (for a flush started by enqueue the
\* queue is the one after the eviction and the push); a flush() on an empty
\* queue issues no transport call and does not set isFlushInProgress.
C12_FlushTakesHead ==
    [][/\ ~EnqueueStep =>
            \A f \in NewFlights :
                LET n == Len(queue)
                    k == Min(config.batchSize, n)
                IN  /\ n > 0
                    /\ NewFlights = {f}
                    /\ f.batch = SubSeq(queue, 1, k)
                    /\ queue' = SubSeq(queue, k + 1, n)
                    /\ requests' = requests \cup {f.batch}
                    /\ isFlushInProgress'
       /\ EnqueueStep =>
            \A f \in NewFlights :
                LET all == f.batch \o queue'
                    k == Min(config.batchSize, Len(all))
                IN  /\ NewFlights = {f}
                    /\ Len(f.batch) = k
                    /\ \E level \in LogLevel : \E i \in 0..Len(queue) :
                          all = SubSeq(queue, 1, i - 1)
                                \o SubSeq(queue, i + 1, Len(queue))
                                \o <<[id |-> nextId, level |-> level]>>
                    /\ requests' = requests \cup {f.batch}
                    /\ isFlushInProgress'
       /\ (~EnqueueStep /\ queue = <<>>) =>
            /\ NewFlights = {}
            /\ requests' \ requests \subseteq {f.batch : f \in flights}
            /\ isFlushInProgress' => isFlushInProgress
            /\ queue' = <<>>]_vars

\* A manual flush took batchSize entries off the head and left a remainder.
C12_Witness ==
    /\ queue # <<>>
    /\ \E f \in flights :
          /\ f.origin = "manual"
          /\ f.calls = 1
          /\ Len(f.batch) = config.batchSize
          /\ f.batch[Len(f.batch)].id < queue[1].id

\* C13: enqueue is enabled in every state with a flush in flight; while a
\* flush is in flight no turn changes its batch - an enqueue adds its entry
\* to the queue and never to the batch, and every transport call carries the
\* batch taken at the start - an entry leaves the queue only by overflow
\* eviction, and the turn that settles the flush leaves the queue as it is.
C13_EnqueueDuringFlush ==
    /\ [](/\ (isFlushInProgress /\ nextId <= MaxEntries) =>
                \A level \in LogLevel : ENABLED Enqueue(level)
          /\ requests \subseteq {f.batch : f \in flights})
    /\ [][isFlushInProgress =>
            /\ {f.batch : f \in flights'} \subseteq {f.batch : f \in flights}
            /\ requests' \subseteq {f.batch : f \in flights}
            /\ EnqueueStep =>
                  /\ queue'[Len(queue')].id = nextId
                  /\ nextId \notin InFlight'
                  /\ flights' = flights
            /\ Ids(queue) \ Ids(queue') \subseteq dropped' \ dropped
            /\ flights' = {} => queue' = queue]_vars

\* Entry 2 was enqueued while the flush of entry 1 was retrying and is
\* queued when that flush settles.
C13_Witness ==
    /\ config.batchSize = 1
    /\ lastSettled.outcome = "rejected"
    /\ lastSettled.calls >= 2
    /\ fallback = {1}
    /\ delivered \cup dropped = {}
    /\ Len(queue) >= 1
    /\ queue[1].id = 2

\* ceil(n / d) for d > 0.
CeilDiv(n, d) == (n + d - 1) \div d

\* C14: whenever flushAll() resolves the queue is empty; a flushAll() called
\* on n queued entries with no flush in flight, with no enqueue and no failed
\* transport call while it runs, has seen exactly ceil(n / batchSize)
\* transport calls issued when it resolves, and it does resolve: such a call
\* in progress leads to its resolution (or to an enqueue or a failed
\* transport call).
C14_FlushAllDrains ==
    /\ [](flushAllResult = "resolved" =>
            /\ queue = <<>>
            /\ drain.clean =>
                  drain.calls = CeilDiv(Cardinality(drain.ids), config.batchSize))
    /\ (flushAllPc # "idle" /\ drain.clean)
          ~> (flushAllResult = "resolved" \/ ~drain.clean)

\* Two queued entries drained undisturbed in two batches of one.
C14_Witness ==
    /\ flushAllResult = "resolved"
    /\ drain.clean
    /\ config.batchSize = 1
    /\ Cardinality(drain.ids) = 2
    /\ drain.calls = 2
    /\ drain.ids \subseteq delivered

\* C15 as stated: when flushAll() settles - resolved or rejected - every
\* entry that was queued when it was called has been delivered or written
\* by the console fallback and none is left behind in the queue.  (An entry
\* evicted with the overflow warning by a concurrent enqueue, or still in
\* the batch of a flush another caller started, is not counted against the
\* claim.)
C15_Original ==
    flushAllResult \in {"resolved", "rejected"} =>
        /\ drain.ids \subseteq delivered \cup fallback \cup dropped \cup InFlight
        /\ drain.ids \cap Ids(queue) = {}

\* C16: at most one interval timer is active, and it is the one
\* autoFlushTimer holds: after any sequence of startAutoFlush and
\* stopAutoFlush calls the active timers are exactly {autoFlushTimer}, or
\* none when autoFlushTimer is null (after stopAutoFlush).
C16_SingleTimer ==
    /\ Cardinality(timers) <= 1
    /\ timers = IF autoFlushTimer = 0 THEN {} ELSE {autoFlushTimer}

\* The timer ran (one of its flushes settled) and was stopped.
C16_Witness ==
    /\ autoFlushTimer = 0
    /\ timers = {}
    /\ lastSettled.origin = "timer"

\* A flush() has just run to completion: delivered, or rejected after
\* retryAttempts + 1 calls with its batch written by the console fallback.
Completed ==
    \/ lastSettled.outcome = "resolved"
    \/ /\ lastSettled.outcome = "rejected"
       /\ lastSettled.calls = config.retryAttempts + 1
       /\ \E i \in 1..Len(console) :
             console[i].text =
                "Falling back to console logging due to backend unavailability"

\* C17: while autoFlushTimer is null (after stopAutoFlush, until the next
\* startAutoFlush) no interval is active, no tick can fire and no turn
\* starts a timer-triggered flush; the stopAutoFlush turn itself leaves the
\* flush in flight, its outstanding transport call and the queue untouched;
\* and every flush in flight - stopped timer or not - runs to completion.
C17_StopAutoFlush ==
    /\ [](autoFlushTimer = 0 => (timers = {} /\ ~ENABLED Tick))
    /\ [][/\ \A f \in NewFlights :
                f.origin = "timer" =>
                    (autoFlushTimer # 0 /\ autoFlushTimer' = autoFlushTimer)
          /\ (autoFlushTimer # 0 /\ autoFlushTimer' = 0) =>
                /\ timers' = {}
                /\ flights' = flights
                /\ requests' = requests
                /\ isFlushInProgress' = isFlushInProgress
                /\ queue' = queue]_vars
    /\ isFlushInProgress ~> Completed

\* The timer was stopped while the flush it started is between two attempts.
C17_Witness ==
    /\ autoFlushTimer = 0
    /\ timers = {}
    /\ \E f \in flights : f.origin = "timer" /\ f.pc = "sleeping"

\* C18: the turn in which a timer-triggered flush is rejected after its last
\* retry leaves the interval registered and the handle in place, and the
\* rejection ends in the .catch handler of the interval callback, which
\* writes 'Auto-flush interval failed:'; as long as the interval is
\* registered a tick can fire, and a tick that finds entries queued and no
\* flush in flight starts a flush.
C18_TimerSurvivesFailure ==
    /\ [](/\ (lastSettled.origin = "timer" /\ lastSettled.outcome = "rejected") =>
                /\ lastSettled.handler = "catch"
                /\ Len(console) > 0
                /\ console[Len(console)] =
                      Line("error", "Auto-flush interval failed:", "", 0)
          /\ timers # {} => ENABLED Tick
          /\ (timers # {} /\ queue # <<>> /\ ~isFlushInProgress) =>
                ENABLED (Tick /\ \E f \in flights' : f.origin = "timer"))
    /\ [][\A f \in flights :
            (f.origin = "timer" /\ f.pc = "sending" /\ flights' = flights \ {f}) =>
                /\ timers' = timers
                /\ autoFlushTimer' = autoFlushTimer
                /\ timers' # {} => lastSettled'.handler \in {"none", "catch"}]_vars

\* A timer-triggered flush was just rejected; the timer is still active and
\* entries are queued for its next tick.
C18_Witness ==
    /\ lastSettled.origin = "timer"
    /\ lastSettled.outcome = "rejected"
    /\ autoFlushTimer # 0
    /\ timers # {}
    /\ queue # <<>>

\* C19: a flush waits only between a failed attempt and the next one: the
\* sleep after failed attempt number a (a < retryAttempts) is
\* retryDelayMs * 2^a - retryDelayMs after attempt 0, twice the previous
\* wait after each further one - and the turn in which the last attempt
\* (a = retryAttempts) fails goes to the console fallback without a sleep.
C19_BackoffDelay ==
    /\ [](\A f \in flights :
            /\ f.pc = "sending" => f.delay = 0
            /\ f.pc = "sleeping" =>
                  /\ f.attemptNumber < config.retryAttempts
                  /\ f.delay = config.retryDelayMs * 2 ^ f.attemptNumber
                  /\ f.attemptNumber = 0 => f.delay = config.retryDelayMs)
    /\ [][\A f \in flights :
            /\ (f.pc = "sending" /\ f.batch \notin requests'
                /\ lastSettled'.outcome # "resolved") =>
                  IF f.attemptNumber < config.retryAttempts
                  THEN \E g \in flights' :
                          /\ g.batch = f.batch
                          /\ g.pc = "sleeping"
                          /\ g.attemptNumber = f.attemptNumber
                          /\ g.delay = config.retryDelayMs * 2 ^ f.attemptNumber
                  ELSE /\ flights' = flights \ {f}
                       /\ lastSettled'.outcome = "rejected"
                       /\ Ids(f.batch) \subseteq fallback'
            /\ (f.pc = "sleeping" /\ f \notin flights') =>
                  \E g \in flights' :
                      /\ g.batch = f.batch
                      /\ g.pc = "sending"
                      /\ g.attemptNumber = f.attemptNumber + 1
                      /\ (g.attemptNumber < config.retryAttempts =>
                            2 * f.delay = config.retryDelayMs * 2 ^ g.attemptNumber)
         ]_vars

\* The wait before the second retry: twice the base delay.
C19_Witness ==
    \E f \in flights :
        /\ f.pc = "sleeping"
        /\ f.attemptNumber = 1
        /\ f.delay = 2 * config.retryDelayMs
        /\ f.calls = 2

\* C20 as stated: a turn that handles a 2xx response whose body carries a
\* status other than "success" delivers nothing: the flush either goes to
\* its backoff sleep (a retry attempt consumed) or, on the last of the
\* retryAttempts + 1 calls, is rejected with its batch written by the
\* console fallback.
C20_Original ==
    [][\A f \in flights :
          Response(f, "bodyError") =>
              /\ Ids(f.batch) \cap delivered' = {}
              /\ lastSettled'.outcome # "resolved"
              /\ IF f.calls < config.retryAttempts + 1
                 THEN \E g \in flights' : g.batch = f.batch /\ g.pc = "sleeping"
                 ELSE /\ lastSettled'.outcome = "rejected"
                      /\ Ids(f.batch) \subseteq fallback']_vars

\* C21 (as stated): every transport call is a POST to exactly the configured
\* apiEndpoint - http://localhost:8000/api/logs with the default endpoint -
\* whose body is {entries: batch}.
C21_Original ==
    \A batch \in requests :
        LET call == fetchCall(config.apiEndpoint, batch)
        IN  /\ call.method = "POST"
            /\ call.url = config.apiEndpoint
            /\ config.apiEndpoint = DEFAULT_CONFIG.apiEndpoint
                   => call.url = "http://localhost:8000/api/logs"
            /\ call.body = [entries |-> batch]

\* C26 (as stated): an updateConfig call that throws leaves the held
\* configuration as it was: getConfig() and shouldLog() answer as before the
\* call.
C26_Original ==
    [][(result'.call = "updateConfig" /\ result'.thrown # "none")
          => /\ getConfig' = getConfig
             /\ \A level \in LogLevel :
                    shouldLog(cmConfig', level) = shouldLog(cmConfig, level)]_vars

\* The constraints on a configuration, field by field, in validation order.
ValidationOrder ==
    <<"batchSize", "flushInterval", "maxQueueSize", "retryAttempts",
      "retryDelayMs", "apiEndpoint", "logLevel">>

Violates(c, field) ==
    CASE field = "batchSize" -> c.batchSize <= 0
      [] field = "flushInterval" -> c.flushInterval <= 0
      [] field = "maxQueueSize" -> c.maxQueueSize <= 0
      [] field = "retryAttempts" -> c.retryAttempts < 0
      [] field = "retryDelayMs" -> c.retryDelayMs <= 0
      [] field = "apiEndpoint" -> c.apiEndpoint = "" \/ ~isValidUrl(c.apiEndpoint)
      [] field = "logLevel" -> c.logLevel \notin {"debug", "info", "warn", "error"}

\* The field an error message of validateConfig is about.
FieldNamed(message) ==
    CASE message = "Batch size must be greater than 0" -> "batchSize"
      [] message = "Flush interval must be greater than 0" -> "flushInterval"
      [] message = "Max queue size must be greater than 0" -> "maxQueueSize"
      [] message = "Retry attempts must be non-negative" -> "retryAttempts"
      [] message = "Retry delay must be greater than 0" -> "retryDelayMs"
      [] message = "API endpoint must be a valid URL" -> "apiEndpoint"
      [] OTHER -> IF SubSeq(message, 1, 19) = "Invalid log level: "
                  THEN "logLevel" ELSE "none"

\* C27: new ConfigManager(custom) throws iff the merge of custom over the
\* defaults violates a constraint; the error names the first violated field
\* in validation order; when it does not throw, the configuration held is the
\* merge itself (nothing clamped or replaced by a default), and when it
\* throws no ConfigManager results.
C27_FailFastValidation ==
    result.call = "new ConfigManager" =>
        LET merged == spread(DEFAULT_CONFIG, result.arg)
            bad == {i \in 1..Len(ValidationOrder) :
                        Violates(merged, ValidationOrder[i])}
        IN  /\ (result.thrown # "none") <=> (bad # {})
            /\ result.thrown # "none" =>
                  /\ \E i \in bad :
                        /\ FieldNamed(result.thrown) = ValidationOrder[i]
                        /\ \A j \in bad : i <= j
                  /\ cmConfig = NoConfigManager
            /\ result.thrown = "none" =>
                  /\ cmConfig = merged
                  /\ \A f \in DOMAIN result.arg : cmConfig[f] = result.arg[f]

\* Two fields of the argument are invalid and the error names the earlier.
C27_Witness ==
    /\ result.call = "new ConfigManager"
    /\ DOMAIN result.arg = {"retryDelayMs", "maxQueueSize"}
    /\ result.thrown = "Max queue size must be greater than 0"

\* C28: for a valid configuration, shouldLog(level) is
\* enabled AND rank(level) >= rank(logLevel) with debug=0, info=1, warn=2,
\* error=3.
C28_ShouldLog ==
    (result.call = "shouldLog" /\ validateConfig(cmConfig) = "none") =>
        LET rank == [debug |-> 0, info |-> 1, warn |-> 2, error |-> 3]
        IN  /\ LOG_LEVELS = rank
            /\ result.value
                  = (cmConfig.enabled /\ rank[result.arg] >= rank[cmConfig.logLevel])

\* shouldLog answers true at the configured level itself, after an update.
C28_Witness ==
    /\ result.call = "shouldLog"
    /\ validateConfig(cmConfig) = "none"
    /\ cmConfig.logLevel = "warn"
    /\ result.arg = "warn"
    /\ result.value = TRUE

\* The entries the queue holds: queued or in the batch of a flush.
Held == {queue[i] : i \in 1..Len(queue)}
            \cup UNION {{f.batch[i] : i \in 1..Len(f.batch)} : f \in flights}

\* The turn handed exactly one entry to the queue - the one with the next
\* id, which is now queued or in the batch of the flush the turn started -
\* and every other entry held is one held before.
HandsOver(e) ==
    /\ nextId' = nextId + 1
    /\ e.id = nextId
    /\ e \in Held'
    /\ Held' \ {e} \subseteq Held
    /\ \A x \in Held' : x.id = nextId => x = e

\* The turn left the queue alone.
QueueUntouched ==
    UNCHANGED <<queue, isFlushInProgress, flights, requests, nextId, dropped>>

\* C22: with enabled = true and logLevel L, a call of debug/info/warn/error
\* or logWithComponent at a level ranked below L leaves the queue unchanged
\* (nothing enqueued, no flush started); a call at a level ranked >= L
\* enqueues exactly one entry of that level.
C22_LevelFilter ==
    [][\A level \in LogLevel :
          (cmConfig.enabled /\ (Log(level) \/ LogWithComponent(level)))
             => IF LOG_LEVELS[level] < LOG_LEVELS[cmConfig.logLevel]
                THEN QueueUntouched
                ELSE \E e \in Held' : HandsOver(e) /\ e.level = level]_vars

\* logWithComponent('info', ...) was called at logLevel warn and nothing was
\* ever enqueued.
C22_Witness ==
    /\ isInitialized
    /\ cmConfig.enabled
    /\ cmConfig.logLevel = "warn"
    /\ result = [call |-> "logWithComponent", level |-> "info"]
    /\ nextId = 1
    /\ queue = <<>>

\* C23 (as stated): with enabled = false every logging call of the Logger -
\* debug, info, warn, error, logWithComponent and logException - leaves the
\* queue unchanged and starts no transport call.
C23_Original ==
    [][(/\ ~cmConfig.enabled
        /\ \/ \E level \in LogLevel : Log(level) \/ LogWithComponent(level)
           \/ \E error \in ErrorObject : LogException(error))
          => QueueUntouched]_vars

\* C24: with logging enabled, logException enqueues exactly one entry, of
\* level error, whatever the logLevel; its stackTrace is the error's stack
\* or 'No stack trace available', its context holds errorName and
\* errorMessage.
C24_ExceptionAlwaysLogged ==
    [][\A error \in ErrorObject :
          (cmConfig.enabled /\ cmConfig.logLevel \in LogLevel /\ LogException(error))
             => \E e \in Held' :
                   /\ HandsOver(e)
                   /\ e.level = "error"
                   /\ e.stackTrace = IF error.stack # Undefined THEN error.stack
                                     ELSE "No stack trace available"
                   /\ e.stackTrace # Undefined
                   /\ {"errorName", "errorMessage"} \subseteq DOMAIN e.context
                   /\ e.context.errorName = error.name
                   /\ e.context.errorMessage = error.message]_vars

\* An exception without a stack was logged at logLevel error.
C24_Witness ==
    /\ cmConfig.enabled
    /\ cmConfig.logLevel = "error"
    /\ result.call = "logException"
    /\ \E e \in Held : /\ e.level = "error"
                       /\ e.stackTrace = "No stack trace available"
                       /\ e.context.errorName = "TypeError"

\* C25 (as stated, for configurations with logging enabled): constructing a
\* Logger enqueues exactly one info-level entry "Loading <name>
\* <major.minor.build>", the first entry the queue is ever handed.
C25_Original ==
    [][(NewLogger /\ cmConfig.enabled)
          => /\ nextId = 1
             /\ \E e \in Held' :
                   /\ HandsOver(e)
                   /\ e.level = "info"
                   /\ e.message = "Loading Safari Extension Unified Logging 1.0.1"]_vars

\* The exception entry a failing call made under the handler leaves: handed
\* over by the turn, of level error, with the error's name and message.
ExceptionEntry(e, error) ==
    /\ HandsOver(e)
    /\ e.level = "error"
    /\ e.context.errorName = error.name
    /\ e.context.errorMessage = error.message
    /\ e.context.capturedWithContext

\* C29: a call of a function wrapped by wrapFunction that returns normally
\* (or whose promise fulfils) yields the same result and logs nothing; one
\* that throws (or whose promise rejects) logs exactly one exception entry,
\* with the call arguments in its context, and throws (rejects with) the
\* identical error.
C29_WrapFunction ==
    [][\A fn \in Behaviour :
          WrapCall(fn) =>
             CASE fn.kind = "returns" ->
                    /\ result'.yields = [outcome |-> "returned", value |-> fn.value]
                    /\ QueueUntouched
               [] fn.kind = "fulfils" ->
                    /\ result'.yields = [outcome |-> "fulfilled", value |-> fn.value]
                    /\ QueueUntouched
               [] fn.kind = "throws" ->
                    /\ result'.yields = [outcome |-> "threw", error |-> fn.error]
                    /\ \E e \in Held' : /\ ExceptionEntry(e, fn.error)
                                        /\ e.context.arguments = CallArgs
               [] fn.kind = "rejects" ->
                    /\ result'.yields = [outcome |-> "rejected", error |-> fn.error]
                    /\ \E e \in Held' : /\ ExceptionEntry(e, fn.error)
                                        /\ e.context.arguments = CallArgs]_vars

\* A wrapped function returned a promise that rejected: the wrapper's
\* promise rejected with the same error and the entry is held.
C29_Witness ==
    /\ result.call = "wrapFunction"
    /\ result.fn.kind = "rejects"
    /\ result.yields = [outcome |-> "rejected", error |-> result.fn.error]
    /\ \E e \in Held : /\ e.id = nextId - 1
                       /\ e.context.arguments = CallArgs
                       /\ e.context.errorName = result.fn.error.name

C36_NoBatchTrigger ==
    [][config.maxQueueSize < config.batchSize =>
          /\ EnqueueStep =>
                /\ Len(queue') < config.batchSize
                /\ Len(queue') = Min(Len(queue) + 1, config.maxQueueSize)
                /\ flights' = flights
                /\ requests' = requests
                /\ isFlushInProgress' = isFlushInProgress
          /\ \A f \in flights' : f.origin \in {"timer", "manual", "flushAll"}]_vars

\* More entries than the queue can hold were enqueued, none of them started
\* a flush, and a timer tick then sent the full queue.
C36_Witness ==
    /\ config.maxQueueSize < config.batchSize
    /\ nextId > config.maxQueueSize + 1
    /\ dropped # {}
    /\ \E f \in flights : /\ f.origin = "timer"
                          /\ Len(f.batch) = config.maxQueueSize

\* C35: the entries the queue object holds in memory - the queued ones and
\* those of the batch in flight - never number more than
\* maxQueueSize + min(batchSize, maxQueueSize), and overflow eviction only
\* ever removes queued entries: what an enqueue evicts was in the queue
\* just before, and the batch in flight is the same before and after.
C35_MemoryBound ==
    [][/\ Len(queue') + Cardinality(InFlight')
            <= config.maxQueueSize + Min(config.batchSize, config.maxQueueSize)
       /\ InFlight' \cap Ids(queue') = {}
       /\ EnqueueStep =>
             /\ (dropped' \ dropped) \subseteq Ids(queue)
             /\ (dropped' \ dropped) \cap InFlight = {}
             /\ \A f \in flights : f \in flights'
             /\ handleQueueOverflow(queue).dropped \subseteq Ids(queue)]_vars

\* The bound is met: a full batch is in flight, the queue has filled up
\* again behind it, and a further enqueue evicted a queued entry.
C35_Witness ==
    /\ Len(queue) + Cardinality(InFlight)
          = config.maxQueueSize + Min(config.batchSize, config.maxQueueSize)
    /\ Cardinality(InFlight) = Min(config.batchSize, config.maxQueueSize)
    /\ dropped # {}
    /\ dropped \cap InFlight = {}

\* C34: the completion of a flush starts no flush.  An entry enqueued while
\* a flush is in flight joins the queue and starts nothing; the turn in
\* which a flush() promise settles takes no batch, makes no transport call
\* and leaves the queue alone, however long it is; and from a state with no
\* flush in flight and at least batchSize entries queued, the queue is left
\* as it is and no flush starts until an enqueue, a timer tick, or a
\* flush() or flushAll() of the application (the loop of a flushAll() in
\* progress included).
C34_CompletionStartsNoFlush ==
    [][/\ (EnqueueStep /\ flights # {}) =>
             /\ flights' = flights
             /\ requests' = requests
             /\ nextId \in Ids(queue')
       /\ lastSettled'.outcome # "none" =>
             /\ queue' = queue
             /\ flights' \subseteq flights
             /\ requests' \subseteq requests
       /\ (/\ flights = {}
           /\ Len(queue) >= config.batchSize
           /\ (queue' # queue \/ flights' # {})) =>
             \/ EnqueueStep
             \/ \E f \in flights' : f.origin \in {"timer", "manual", "flushAll"}]_vars

\* A flush has just completed, nothing is in flight, and a full batch that
\* was enqueued meanwhile sits in the queue.
C34_Witness ==
    /\ lastSettled.outcome = "resolved"
    /\ flights = {}
    /\ requests = {}
    /\ ~isFlushInProgress
    /\ Len(queue) >= config.batchSize
    /\ Len(queue) = MaxBatchSize
    /\ flushAllPc = "idle"

\* C33: while the auto-flush timer keeps running and every transport call
\* and backoff sleep ends, every entry that is in the queue eventually
\* meets its fate - delivered, written to the console fallback or evicted
\* by overflow - whether or not the application calls the queue again.  (A
\* run in which the timer is stopped is outside the claim from that moment
\* until the timer is started again.)
C33_TimerDrains ==
    \A id \in 1..MaxEntries :
        (id \in Ids(queue)) ~>
            (id \in delivered \cup fallback \cup dropped \/ timers = {})

\* The timer alone emptied the queue: its flush delivered the last queued
\* entries while the timer kept running.
C33_Witness ==
    /\ lastSettled.origin = "timer"
    /\ lastSettled.outcome = "resolved"
    /\ timers # {}
    /\ queue = <<>>
    /\ delivered # {}

\* C37: a successful updateConfig made while a Logger exists replaces the
\* ConfigManager's configuration and nothing else: the configuration the
\* queue was constructed with (batchSize, maxQueueSize, retryAttempts,
\* retryDelayMs, apiEndpoint, flushInterval), the registered interval, the
\* queued entries, the batch in flight and its transport call stay as they
\* are.  Every log call after it is filtered by the updated logLevel and
\* enabled, whatever the queue's copy says.
C37_UpdateAfterConstruction ==
    [][/\ \A updates \in LoggerUpdates :
             (isInitialized /\ UpdateConfig(updates) /\ result'.thrown = "none")
                => /\ cmConfig' = spread(cmConfig, updates)
                   /\ config' = config
                   /\ timers' = timers
                   /\ autoFlushTimer' = autoFlushTimer
                   /\ QueueUntouched
                   /\ UNCHANGED <<delivered, fallback>>
       /\ \A level \in LogLevel :
             Log(level) =>
                IF cmConfig.enabled
                      /\ LOG_LEVELS[level] >= LOG_LEVELS[cmConfig.logLevel]
                THEN \E e \in Held' : HandsOver(e) /\ e.level = level
                ELSE QueueUntouched]_vars

\* The Logger was constructed at logLevel info and batchSize MaxBatchSize,
\* the loading message is queued, both were updated since, and the next
\* info call was filtered out while the queue still works with its copy.
C37_Witness ==
    /\ isInitialized
    /\ config.logLevel = "info"
    /\ config.batchSize = MaxBatchSize
    /\ cmConfig.logLevel = "error"
    /\ cmConfig.batchSize = 1
    /\ result = [call |-> "log", level |-> "info"]
    /\ Len(queue) = 1
    /\ queue[1].message = LoadingMessage
    /\ nextId = 2
    /\ flights = {}

\* C32 (as stated): with the exception handler installed, a transport call
\* that fails hands no entry to the Logger's queue: the turn in which the
\* fetch fails - retry exhaustion, console fallback and the .catch handler
\* included - assigns no new entry identity and leaves the queue as it is.
C32_Original ==
    [][\A f \in flights : \A outcome \in FetchFailures :
          (isSetup /\ HookedResponse(f, outcome)) =>
             /\ nextId' = nextId
             /\ queue' = queue
             /\ flights' \subseteq flights]_vars

\* C31 (as stated): the UnifiedLogger batches and retries as the
\* AsyncLogQueue does - never two sends in flight at once, at most
\* batchSize entries per transport call, and retryAttempts + 1 transport
\* calls for a batch before it is given up.
C31_Original ==
    /\ Cardinality(flights) <= 1
    /\ \A f \in flights : Len(f.batch) <= config.batchSize
    /\ lastSettled.outcome = "rejected" =>
          lastSettled.calls = config.retryAttempts + 1

\* C38 (as stated): in the UnifiedLogger no entry is ever lost to a failed
\* send - every entry logged is queued, in flight, delivered or was evicted
\* by an enqueue - and the turn in which a send fails for the last time
\* puts the batch back at the head of the queue, in order, ahead of what
\* was queued meanwhile.
C38_Original ==
    [][/\ Accepted' \subseteq
             Ids(queue') \cup InFlight' \cup delivered' \cup dropped'
       /\ \A f \in flights :
             (lastSettled'.outcome = "rejected" /\ f \notin flights') =>
                queue' = f.batch \o queue]_vars

\* C39 (as stated): the queue of the UnifiedLogger never holds more than
\* maxQueueSize entries, and an enqueue that would exceed the limit keeps
\* the most recent maxQueueSize entries.
C39_Original ==
    [][/\ Len(queue') <= config.maxQueueSize
       /\ (nextId' = nextId + 1 /\ Len(queue) + 1 > config.maxQueueSize) =>
             LET pushed == Append(queue, [id |-> nextId, level |-> "info"])
             IN  Ids(queue') \cup (InFlight' \ InFlight)
                    = Ids(SubSeq(pushed, Len(pushed) - config.maxQueueSize + 1,
                                 Len(pushed)))]_vars
====
